---- MODULE Spec2Model ----
(***************************************************************************)
(* A model of jbod-rs: enclosure/fan discovery (src/jbod/enclosure.rs),    *)
(* disk topology rebuild and LED control (src/jbod/disks.rs) and the       *)
(* helpers of src/utils/helper.rs.                                         *)
(*                                                                         *)
(* Every Rust String is a sequence of one-character strings, so that       *)
(* split, trim, contains, format! and == are computed, not assumed.        *)
(***************************************************************************)
EXTENDS Integers, Sequences, FiniteSets, TLC

\* ------------------------------------------------------------------------
\* str/String primitives used by the program
\* ------------------------------------------------------------------------

\* char::is_digit(10)
IsDigit(c) == c \in {"0", "1", "2", "3", "4", "5", "6", "7", "8", "9"}

\* char::to_digit(10) of a decimal digit
ToDigit(c) ==
    CASE c = "0" -> 0 [] c = "1" -> 1 [] c = "2" -> 2 [] c = "3" -> 3
      [] c = "4" -> 4 [] c = "5" -> 5 [] c = "6" -> 6 [] c = "7" -> 7
      [] c = "8" -> 8 [] c = "9" -> 9

\* char::is_whitespace, over the characters the model uses
IsSpace(c) == c \in {" ", "\t", "\n"}

\* the suffix of s starting at position i (1-based); empty past the end
Drop(s, i) == IF i > Len(s) THEN <<>> ELSE SubSeq(s, i, Len(s))

\* the prefix of s of length n
Take(s, n) == IF n <= 0 THEN <<>> ELSE SubSeq(s, 1, n)

\* str::find(char): the first position of c in s, 0 when there is none
RECURSIVE FindFrom(_, _, _)
FindFrom(s, c, i) ==
    IF i > Len(s) THEN 0
    ELSE IF s[i] = c THEN i
    ELSE FindFrom(s, c, i + 1)

Find(s, c) == FindFrom(s, c, 1)

\* str::split(char).collect(): the pieces between the occurrences of c;
\* there is always at least one piece (the empty string gives <<"">>)
RECURSIVE Split(_, _)
Split(s, c) ==
    LET k == Find(s, c)
    IN  IF k = 0 THEN <<s>>
        ELSE <<Take(s, k - 1)>> \o Split(Drop(s, k + 1), c)

\* str::trim_start
RECURSIVE TrimStart(_)
TrimStart(s) ==
    IF s # <<>> /\ IsSpace(Head(s)) THEN TrimStart(Tail(s)) ELSE s

\* str::trim_end
RECURSIVE TrimEnd(_)
TrimEnd(s) ==
    IF s # <<>> /\ IsSpace(s[Len(s)]) THEN TrimEnd(Take(s, Len(s) - 1)) ELSE s

\* str::trim
Trim(s) == TrimEnd(TrimStart(s))

\* str::starts_with(&str)
StartsWith(s, p) == Len(p) <= Len(s) /\ Take(s, Len(p)) = p

\* str::contains(&str)
Contains(s, p) ==
    \E i \in 1..(Len(s) - Len(p) + 1) : SubSeq(s, i, i + Len(p) - 1) = p

\* str::split_whitespace().collect(): the maximal runs of non-whitespace
RECURSIVE SplitWhitespace(_)
SplitWhitespace(s) ==
    LET t == TrimStart(s)
        RECURSIVE WordLen(_, _)
        WordLen(u, n) ==
            IF n < Len(u) /\ ~IsSpace(u[n + 1]) THEN WordLen(u, n + 1) ELSE n
    IN  IF t = <<>> THEN <<>>
        ELSE LET n == WordLen(t, 0)
             IN  <<Take(t, n)>> \o SplitWhitespace(Drop(t, n + 1))

\* chars().filter(|n| n.is_digit(10)).collect()
RECURSIVE FilterDigits(_)
FilterDigits(s) ==
    IF s = <<>> THEN <<>>
    ELSE IF IsDigit(Head(s)) THEN <<Head(s)>> \o FilterDigits(Tail(s))
    ELSE FilterDigits(Tail(s))

\* The sentinel "NONE" of disks.rs and enclosure.rs
NONE == <<"N","O","N","E">>

\* ------------------------------------------------------------------------
\* Bounds of the model
\* ------------------------------------------------------------------------

\* the most lines one enclosure's cooling-component stream holds
MaxFanLines == 2

\* the most scrapes the exporter serves
MaxScrapes == 3

\* ------------------------------------------------------------------------
\* State
\* ------------------------------------------------------------------------
VARIABLES
    \* --- the environment ---
    env,            \* directories and tool outputs: [dirs, sg_map_out,
                    \*   scsi_temp_out, sginfo_out, overflow_checks,
                    \*   lsscsi_out, sg_inq_out (the outputs the inquiry tool may give)]
    fs_files,       \* the regular and device files: path -> content
    enclosures,     \* what BackPlane::get_enclosure() returns
    \* --- get_enclosure_fan (enclosure.rs:235-272) ---
    fan_pc,         \* "idle" | "scan" | "done" | "panic"
    fan_enc,        \* position of `enclosure` in the loop of line 239
    fan_lineno,     \* lines read so far from the current enclosure's stream
    encf_u,         \* `encf_u`: the line read last (line 246)
    enclosure_fan,  \* `enclosure_fan`: the result vector (line 236)
    rpm_log,        \* the per-component RPM queries issued: [device, index, out]
    fan_seen,       \* history: first description seen per (index, serial)
    \* --- get_disk_sd_map (disks.rs:200-222) ---
    map_pc,         \* "idle" | "read" | "done" | "panic"
    map_lineno,     \* lines of the tool's stdout consumed so far
    disks,          \* `disks`: the HashMap being built (line 201)
    \* --- get_enclosure and get_enclosure_details (enclosure.rs:154-307) ---
    enc_pc,         \* "idle" | "scan" | "done" | "panic" | "inq" | "inq_done"
    enc_lineno,     \* lines of the device listing consumed so far
    enc_list,       \* `enclosure`: the result vector (line 285)
    inq_log,        \* the inquiry outputs given, one per enclosure pushed
    inq_details,    \* what the last get_enclosure_details() returned
    \* --- get_disk_temperature (disks.rs:83-93) ---
    temp_pc,        \* "idle" | "call" | "done" | "panic"
    temp_result,    \* the String the call returned
    \* --- the exporter: metrics_handler (prometheus.rs:98-158) ---
    prom_pc,        \* "idle" | "serve" | "exit1"
    fan_rpm,        \* JBOD_FAN_RPM: (device, slot) labels -> value
    number_of_enclosures,  \* NUMBER_OF_ENCLOSURES
    slot_temperature,      \* JBOD_SLOT_TEMPERATURE: (slot, enclosure) -> value
    disks_temperature,     \* what the last scrape's jbod_disk_map() gave
    response,       \* the last scrape's reply: its temperature series
    scrapes,        \* scrapes handled so far
    \* --- the jbod process: `list -d` and `led` (main.rs, disks.rs) ---
    cmd,            \* the arguments: [sub, locate, fault, on, off]
    pc,             \* "idle" | "start" | "fault" | "done" | "exit1" | "panic"
    stdout,         \* the messages printed, in order
    fs_writes,      \* the fs::write calls issued, in order: [path, data]
    rebuilds,       \* how many times jbod_disk_map() has been called
    jbod,           \* what the last jbod_disk_map() gave: [status, disk]
    led_op          \* the last set_disk_led_* call and what it did

envVars == <<env, fs_files, enclosures>>

fanVars == <<fan_pc, fan_enc, fan_lineno, encf_u, enclosure_fan, rpm_log,
             fan_seen>>

mapVars == <<map_pc, map_lineno, disks>>

encVars == <<enc_pc, enc_lineno, enc_list, inq_log, inq_details>>

tempVars == <<temp_pc, temp_result>>

promVars == <<prom_pc, fan_rpm, number_of_enclosures, slot_temperature,
              disks_temperature, response, scrapes>>

procVars == <<cmd, pc, stdout, fs_writes, rebuilds, jbod, led_op>>

vars == <<envVars, fanVars, mapVars, encVars, tempVars, promVars, procVars>>

\* ------------------------------------------------------------------------
\* Fan enumeration: inputs
\* ------------------------------------------------------------------------

\* Enclosures as get_enclosure() returns them (only the fields the fan scan
\* reads).  The second shares the first one's slot label under another
\* serial; the third shares the first one's serial under another slot.
FanEnclosures ==
    { [slot |-> <<"1","5",":","0",":","1",":","0">>, serial |-> <<"S","E","R","1">>, device_path |-> <<"/","d","e","v","/","s","g","9">>],
      [slot |-> <<"1","5",":","0",":","1",":","0">>, serial |-> <<"S","E","R","2">>, device_path |-> <<"/","d","e","v","/","s","g","8">>],
      [slot |-> <<"1","6",":","0",":","1",":","0">>, serial |-> <<"S","E","R","1">>, device_path |-> <<"/","d","e","v","/","s","g","7">>] }

EnclosureLists ==
    {<<>>} \cup {<<a>> : a \in FanEnclosures}
           \cup {<<a, b>> : a \in FanEnclosures, b \in FanEnclosures}

\* Lines of `sg_ses -j -ff <dev> | grep Cooling`
FanLines ==
    { <<"F","a","n"," ","A"," ","[","1","]">>,       \* description "Fan A", index "1"
      <<"F","a","n"," ","B"," ","[","1","]">>,       \* the same index under another description
      <<"F","a","n"," ","A"," ","[","2","]">>,
      <<"C","o","o","l","i","n","g">>,         \* no '['
      <<"[","1","]">>,             \* empty description
      <<" "," ","[","2","]">>,           \* blank description
      <<"F","a","n"," ","A"," ","[","]">>,        \* empty index
      <<"F","a","n"," ","A"," ","[","2">>,        \* no ']'
      <<"F","a","n"," ","B"," ","[","[","1","]">>,      \* a second '[' right after the first
      <<>> }

\* Outputs of `sg_ses --index=<i> <dev>`
RpmOutputs ==
    { <<"s","t","a","t","u","s",":"," ","O","K","\n","A","c","t","u","a","l"," ","s","p","e","e","d",","," ","4","2","0","0"," ","r","p","m",","," ","F","a","n"," ","a","t"," ","l","o","w","e","s","t"," ","s","p","e","e","d","\n">>,
      <<"A","c","t","u","a","l"," ","s","p","e","e","d",",","0"," ","r","p","m",",","s","t","o","p","p","e","d","\n">>,
      <<"s","t","a","t","u","s",":"," ","O","K","\n","I","d","e","n","t","=","0",","," ","F","a","i","l","=","0","\n">>,           \* no line with "speed"
      <<"A","c","t","u","a","l"," ","s","p","e","e","d",","," ","r","p","m",","," ","u","n","k","n","o","w","n","\n">>,            \* no digit in the 2nd field
      <<"A","c","t","u","a","l"," ","s","p","e","e","d","=","4","2","0","0"," ","r","p","m","\n">>,                 \* no comma
      <<"A","c","t","u","a","l"," ","s","p","e","e","d",","," ","4","2","0","0"," ","r","p","m","\n">> }               \* no third field

\* ------------------------------------------------------------------------
\* get_enclosure_fan_speed (enclosure.rs:200-228)
\* ------------------------------------------------------------------------

\* skip_while(|c| !c.is_digit(10)), line 218
RECURSIVE SkipWhileNotDigit(_)
SkipWhileNotDigit(s) ==
    IF s # <<>> /\ ~IsDigit(Head(s)) THEN SkipWhileNotDigit(Tail(s)) ELSE s

\* take_while(|c| c.is_digit(10)), line 219
RECURSIVE TakeWhileDigit(_)
TakeWhileDigit(s) ==
    IF s # <<>> /\ IsDigit(Head(s))
    THEN <<Head(s)>> \o TakeWhileDigit(Tail(s))
    ELSE <<>>

\* fold(None, |acc, c| c.to_digit(10).map(|b| acc.unwrap_or(0) * 10 + b)),
\* lines 220-222: None for no digit at all
RECURSIVE FoldDigits(_, _)
FoldDigits(s, acc) ==
    IF s = <<>> THEN acc
    ELSE FoldDigits(Tail(s),
                    [some |-> TRUE,
                     val  |-> (IF acc.some THEN acc.val ELSE 0) * 10
                              + ToDigit(Head(s))])

\* lines 215-222: the Option<u32> parsed from the second field
ParseSpeedField(f) ==
    FoldDigits(TakeWhileDigit(SkipWhileNotDigit(Trim(f))),
               [some |-> FALSE, val |-> 0])

FanSpeedPanic == [panic |-> TRUE, speed |-> 0, comment |-> <<>>]

\* the loop of lines 212-226 over the output's lines; a panic (an index out
\* of bounds at 215 or 224, unwrap() of None at 223) ends it
RECURSIVE FanSpeedLoop(_, _)
FanSpeedLoop(output_spl, acc) ==
    IF output_spl = <<>> THEN acc
    ELSE LET output == Head(output_spl)
             output_speed == Split(output, ",")
         IN  IF ~Contains(output, <<"s","p","e","e","d">>)
             THEN FanSpeedLoop(Tail(output_spl), acc)
             ELSE IF Len(output_speed) < 2 THEN FanSpeedPanic
             ELSE IF ~ParseSpeedField(output_speed[2]).some THEN FanSpeedPanic
             ELSE IF Len(output_speed) < 3 THEN FanSpeedPanic
             ELSE FanSpeedLoop(Tail(output_spl),
                               [panic   |-> FALSE,
                                speed   |-> ParseSpeedField(output_speed[2]).val,
                                comment |-> Trim(output_speed[3])])

\* the (speed, comment) returned for the tool's output `sg_ses_output`;
\* speed and comment start as 0 and "" (lines 201-202)
get_enclosure_fan_speed(sg_ses_output) ==
    FanSpeedLoop(Split(sg_ses_output, "\n"),
                 [panic |-> FALSE, speed |-> 0, comment |-> <<>>])

\* ------------------------------------------------------------------------
\* get_enclosure_fan (enclosure.rs:235-272)
\* ------------------------------------------------------------------------

\* lines 247-252 without the test of the description
FanLineParseNoDescriptionCheck(line) ==
    LET encf_split == Split(line, "[")
    IN  IF Len(encf_split) > 1
        THEN LET index_vec == Split(encf_split[2], "]")
             IN  [candidate   |-> index_vec[1] # <<>>,
                  description |-> Trim(encf_split[1]),
                  index       |-> index_vec[1]]
        ELSE [candidate |-> FALSE, description |-> <<>>, index |-> <<>>]

\* lines 247-252: whether the line gives a component, its description and
\* its index
FanLineParse(line) ==
    LET encf_split == Split(line, "[")
    IN  IF Len(encf_split) > 1
        THEN LET index_vec == Split(encf_split[2], "]")
                 description == Trim(encf_split[1])
                 index == index_vec[1]
             IN  [candidate   |-> description # <<>> /\ index # <<>>,
                  description |-> description,
                  index       |-> index]
        ELSE [candidate |-> FALSE, description |-> <<>>, index |-> <<>>]

\* lines 253-254: the running result holds the (index, serial) pair already
FanIsPresentBySlot(fans, index, enclosure) ==
    \E k \in 1..Len(fans) :
        fans[k].index = index /\ fans[k].slot = enclosure.slot

FanIsPresent(fans, index, enclosure) ==
    \E k \in 1..Len(fans) :
        fans[k].index = index /\ fans[k].serial = enclosure.serial

\* the history of first occurrences, kept beside the program's own state
FanSeenAfter(seen, enclosure, parsed) ==
    IF parsed.candidate
       /\ ~\E r \in seen : r.index = parsed.index /\ r.serial = enclosure.serial
    THEN seen \cup {[index       |-> parsed.index,
                     serial      |-> enclosure.serial,
                     description |-> parsed.description]}
    ELSE seen

\* One turn of the loop of line 245 for a line that gives no new component:
\* nothing is queried and nothing is pushed.
FanSkipLine ==
    /\ fan_pc = "scan"
    /\ fan_enc <= Len(enclosures)
    /\ fan_lineno < MaxFanLines
    /\ \E line \in FanLines :
         LET enclosure == enclosures[fan_enc]
             parsed == FanLineParse(line)
         IN  /\ ~parsed.candidate
                \/ FanIsPresent(enclosure_fan, parsed.index, enclosure)
             /\ encf_u' = line
             /\ fan_seen' = FanSeenAfter(fan_seen, enclosure, parsed)
    /\ fan_lineno' = fan_lineno + 1
    /\ UNCHANGED <<fan_pc, fan_enc, enclosure_fan, rpm_log,
                   envVars, mapVars, encVars, tempVars, procVars, promVars>>

\* One turn of the loop for a first-seen component: the RPM query is issued
\* (lines 256-257) and, unless it panics, the EnclosureFan is pushed.
FanNewComponent ==
    /\ fan_pc = "scan"
    /\ fan_enc <= Len(enclosures)
    /\ fan_lineno < MaxFanLines
    /\ \E line \in FanLines, out \in RpmOutputs :
         LET enclosure == enclosures[fan_enc]
             parsed == FanLineParse(line)
             got == get_enclosure_fan_speed(out)
         IN  /\ parsed.candidate
             /\ ~FanIsPresent(enclosure_fan, parsed.index, enclosure)
             /\ encf_u' = line
             /\ fan_seen' = FanSeenAfter(fan_seen, enclosure, parsed)
             /\ rpm_log' = Append(rpm_log, [device |-> enclosure.device_path,
                                            index  |-> parsed.index,
                                            out    |-> out])
             /\ IF got.panic
                THEN /\ fan_pc' = "panic"
                     /\ UNCHANGED enclosure_fan
                ELSE /\ fan_pc' = "scan"
                     /\ enclosure_fan' =
                          Append(enclosure_fan,
                                 [slot        |-> enclosure.slot,
                                  serial      |-> enclosure.serial,
                                  description |-> parsed.description,
                                  index       |-> parsed.index,
                                  speed       |-> got.speed,
                                  comment     |-> got.comment])
    /\ fan_lineno' = fan_lineno + 1
    /\ UNCHANGED <<fan_enc, envVars, mapVars, encVars, tempVars, procVars, promVars>>

\* The stream of the current enclosure ends: the loop of line 239 moves on.
FanNextEnclosure ==
    /\ fan_pc = "scan"
    /\ fan_enc <= Len(enclosures)
    /\ fan_enc' = fan_enc + 1
    /\ fan_lineno' = 0
    /\ UNCHANGED <<fan_pc, encf_u, enclosure_fan, rpm_log, fan_seen,
                   envVars, mapVars, encVars, tempVars, procVars, promVars>>

\* Line 271: the result is returned.
FanReturn ==
    /\ fan_pc = "scan"
    /\ fan_enc > Len(enclosures)
    /\ fan_pc' = "done"
    /\ UNCHANGED <<fan_enc, fan_lineno, encf_u, enclosure_fan, rpm_log,
                   fan_seen, envVars, mapVars, encVars, tempVars, procVars,
                   promVars>>

\* ------------------------------------------------------------------------
\* get_disk_sd_map (disks.rs:200-222)
\* ------------------------------------------------------------------------

\* HashMap::insert: the table with key k bound to v, replacing its old value
MapInsert(table, k, v) == (k :> v) @@ table

\* the empty HashMap of line 201
EmptyMap == [x \in {} |-> <<>>]

MapPanic == [panic |-> TRUE, disks |-> EmptyMap]

\* lines 210-216 with the second token dropped: every key is bound to "NONE"
MapInsertLineAlwaysNone(acc, line) ==
    LET output_split == SplitWhitespace(line)
    IN  IF output_split = <<>> THEN MapPanic
        ELSE [panic |-> FALSE,
              disks |-> MapInsert(acc.disks, output_split[1], NONE)]

\* lines 210-216: one line of the tool's output put in the table; a line
\* without any token panics at output_split[0]
MapInsertLine(acc, line) ==
    LET output_split == SplitWhitespace(line)
    IN  IF Len(output_split) > 1
        THEN [panic |-> FALSE,
              disks |-> MapInsert(acc.disks, output_split[1], output_split[2])]
        ELSE IF output_split = <<>> THEN MapPanic
        ELSE [panic |-> FALSE,
              disks |-> MapInsert(acc.disks, output_split[1], NONE)]

\* the loop of line 209 over the lines of the tool's stdout
RECURSIVE MapLoop(_, _)
MapLoop(stdout_lines, acc) ==
    IF stdout_lines = <<>> \/ acc.panic THEN acc
    ELSE MapLoop(Tail(stdout_lines), MapInsertLine(acc, Head(stdout_lines)))

\* the table built from the lines of `sg_map`'s stdout
get_disk_sd_map(stdout_lines) ==
    MapLoop(stdout_lines, [panic |-> FALSE, disks |-> EmptyMap])

\* ------------------------------------------------------------------------
\* The filesystem and the external tools, as the program sees them
\* ------------------------------------------------------------------------

\* "/sys/class/enclosure/" (disks.rs:234, 261, 397, 467)
sys_class_enclosure == <<"/","s","y","s","/","c","l","a","s","s","/","e","n","c","l","o","s","u","r","e","/">>

\* a path without its trailing '/'
StripSlash(p) ==
    IF Len(p) > 1 /\ p[Len(p)] = "/" THEN Take(p, Len(p) - 1) ELSE p

\* PathBuf::join of a directory and an entry name, as DirEntry::path gives
JoinPath(dir, name) == StripSlash(dir) \o <<"/">> \o name

\* the external tools (helper.rs:39-44)
LSSCSI == <<"/","u","s","r","/","b","i","n","/","l","s","s","c","s","i">>
SG_INQ == <<"/","u","s","r","/","b","i","n","/","s","g","_","i","n","q">>
SCSI_TEMP == <<"/","u","s","r","/","b","i","n","/","s","c","s","i","_","t","e","m","p","e","r","a","t","u","r","e">>
SG_MAP == <<"/","u","s","r","/","b","i","n","/","s","g","_","m","a","p">>
SG_SES == <<"/","u","s","r","/","b","i","n","/","s","g","_","s","e","s">>
SGINFO == <<"/","u","s","r","/","b","i","n","/","s","g","i","n","f","o">>

\* Command::new(tool) can be spawned: the binary is on the filesystem;
\* otherwise the unwrap() or expect() on the spawn's result panics
ToolRuns(tool) == tool \in DOMAIN fs_files

IsDir(p) == StripSlash(p) \in DOMAIN env.dirs

\* Util::path_exists (helper.rs:86-88): Path::new(path).exists(); a relative
\* path is looked up in the working directory, whose files are in fs_files
\* under their bare names
path_exists(path) ==
    \/ IsDir(path)
    \/ path # <<>> /\ path[Len(path)] # "/" /\ path \in DOMAIN fs_files

\* fs::read_dir(path): the entry names, in the order the directory gives
ReadDir(path) == env.dirs[StripSlash(path)]

\* Util::is_folder_empty (helper.rs:54-56) under unwrap_or(false), and
\* Util::verify_sysclass_folder (helper.rs:60-76): TRUE when the process
\* exits; a path that cannot be listed is an Err, hence "not empty"
verify_sysclass_folder_exits(path) ==
    IsDir(path) /\ ReadDir(path) = <<>>

\* ------------------------------------------------------------------------
\* Attribute readers (disks.rs:83-194)
\* ------------------------------------------------------------------------

\* get_disk_temperature with the filter of disks.rs:90 dropped
get_disk_temperature_unfiltered(scsi_temp_output) ==
    LET output_spl == Split(scsi_temp_output, "\n")
    IN  IF Len(output_spl) < 3
        THEN [panic |-> TRUE, value |-> <<>>]
        ELSE [panic |-> FALSE, value |-> output_spl[3]]

\* get_disk_temperature (disks.rs:83-93) on the tool's output; output_spl[2]
\* panics when the output has fewer than three lines
get_disk_temperature(scsi_temp_output) ==
    LET output_spl == Split(scsi_temp_output, "\n")
    IN  IF Len(output_spl) < 3
        THEN [panic |-> TRUE, value |-> <<>>]
        ELSE [panic |-> FALSE, value |-> FilterDigits(output_spl[3])]

\* String::replace(from, ""): s with every occurrence of `from` removed
RECURSIVE Remove(_, _)
Remove(s, from) ==
    IF s = <<>> THEN <<>>
    ELSE IF StartsWith(s, from) THEN Remove(Drop(s, Len(from) + 1), from)
    ELSE <<Head(s)>> \o Remove(Tail(s), from)

\* the loop of disks.rs:116-121 from the first line on
RECURSIVE FirmwareLoop(_)
FirmwareLoop(lines) ==
    IF lines = <<>> THEN <<>>
    ELSE IF Contains(Head(lines), <<"R","e","v","i","s","i","o","n"," ","l","e","v","e","l">>)
    THEN Trim(Remove(Head(lines), <<"R","e","v","i","s","i","o","n"," ","l","e","v","e","l",":">>))
    ELSE FirmwareLoop(Tail(lines))

\* get_disk_firmware (disks.rs:108-124) on the tool's output
get_disk_firmware(sginfo_output) == FirmwareLoop(Split(sginfo_output, "\n"))

\* "N/A" (disks.rs:140, 161, 186)
NotAvailable == <<"N","/","A">>

\* fs::read(path) with the Err arm of disks.rs:138-141
ReadOrNA(path) == IF path \in DOMAIN fs_files THEN fs_files[path] ELSE NotAvailable

\* get_disk_serial (disks.rs:136-144)
get_disk_serial(disk) == ReadOrNA(disk \o <<"/","v","p","d","_","p","g","8","0">>)

\* disks.rs:164-168: s.truncate(s.len() - 1); for an empty string the
\* subtraction overflows: a panic where overflow checks are compiled in,
\* and otherwise a length past the end, which truncate ignores
TruncateLast(s) ==
    IF s = <<>>
    THEN [panic |-> env.overflow_checks, value |-> <<>>]
    ELSE [panic |-> FALSE, value |-> Take(s, Len(s) - 1)]

\* get_disk_vendor (disks.rs:157-169)
get_disk_vendor(disk) == TruncateLast(ReadOrNA(disk \o <<"/","v","e","n","d","o","r">>))

\* get_disk_model (disks.rs:182-194)
get_disk_model(disk) == TruncateLast(ReadOrNA(disk \o <<"/","m","o","d","e","l">>))

\* get_disk_led_locate_path without the test of disks.rs:244
get_disk_led_locate_path_unchecked(enclosure_slot, disk_slot) ==
    [exit  |-> verify_sysclass_folder_exits(sys_class_enclosure),
     value |-> sys_class_enclosure \o enclosure_slot \o <<"/">> \o disk_slot
                  \o <<"/","l","o","c","a","t","e">>]

\* get_disk_led_locate_path (disks.rs:233-249); exit when the sysfs root is
\* found empty
get_disk_led_locate_path(enclosure_slot, disk_slot) ==
    LET led_locate_path ==
            sys_class_enclosure \o enclosure_slot \o <<"/">> \o disk_slot \o <<"/","l","o","c","a","t","e">>
    IN  [exit  |-> verify_sysclass_folder_exits(sys_class_enclosure),
         value |-> IF path_exists(led_locate_path) THEN led_locate_path ELSE NONE]

\* get_disk_led_fault_path (disks.rs:260-276)
get_disk_led_fault_path(enclosure_slot, disk_slot) ==
    LET led_fault_path ==
            sys_class_enclosure \o enclosure_slot \o <<"/">> \o disk_slot \o <<"/","f","a","u","l","t">>
    IN  [exit  |-> verify_sysclass_folder_exits(sys_class_enclosure),
         value |-> IF path_exists(led_fault_path) THEN led_fault_path ELSE NONE]

\* ------------------------------------------------------------------------
\* get_disk_details (disks.rs:382-455)
\* ------------------------------------------------------------------------

\* char::to_lowercase over ASCII
ToLowerChar(c) ==
    CASE c = "A" -> "a" [] c = "B" -> "b" [] c = "C" -> "c" [] c = "D" -> "d"
      [] c = "E" -> "e" [] c = "F" -> "f" [] c = "G" -> "g" [] c = "H" -> "h"
      [] c = "I" -> "i" [] c = "J" -> "j" [] c = "K" -> "k" [] c = "L" -> "l"
      [] c = "M" -> "m" [] c = "N" -> "n" [] c = "O" -> "o" [] c = "P" -> "p"
      [] c = "Q" -> "q" [] c = "R" -> "r" [] c = "S" -> "s" [] c = "T" -> "t"
      [] c = "U" -> "u" [] c = "V" -> "v" [] c = "W" -> "w" [] c = "X" -> "x"
      [] c = "Y" -> "y" [] c = "Z" -> "z" [] OTHER -> c

\* str::to_lowercase (disks.rs:411)
ToLowercase(s) == [i \in 1..Len(s) |-> ToLowerChar(s[i])]

\* disks.rs:415-418 with the test dropped: every name passes
SlotNameAcceptedAlways(slot_name) == TRUE

\* the allow-list of disks.rs:415-418
SlotNameAccepted(slot_name) ==
    LET cmp_slot == ToLowercase(slot_name)
    IN  \/ Contains(cmp_slot, <<"s","l","o","t">>)
        \/ Contains(cmp_slot, <<"d","i","s","k">>)
        \/ Contains(cmp_slot, <<"a","r","r","a","y"," ","d","e","v","i","c","e">>)
        \/ \A i \in 1..Len(cmp_slot) : IsDigit(cmp_slot[i])

\* the ten strings of disks.rs:398-407, all empty
NoDetails ==
    [status |-> "ok", enclosure |-> <<>>, slot |-> <<>>, device_path |-> <<>>,
     temperature |-> <<>>, fw_revision |-> <<>>, vendor |-> <<>>,
     model |-> <<>>, serial |-> <<>>, disk_locate_led |-> <<>>,
     disk_fault_led |-> <<>>]

\* one turn of the loop of disks.rs:425-440 for the scsi_generic entry `dev`:
\* the ten strings it assigns, or the panic or exit that ends it
DetailsOfEntry(generic_device, physical_device, enclosure_slot, dev) ==
    LET split_dev == Split(JoinPath(physical_device, dev), "/")
        get_slot == Split(split_dev[6], ",")
        device_path == <<"/","d","e","v","/">> \o split_dev[9]
        temperature == IF ToolRuns(SCSI_TEMP)
                       THEN get_disk_temperature(env.scsi_temp_out)
                       ELSE [panic |-> TRUE, value |-> <<>>]
        vendor == get_disk_vendor(generic_device)
        model == get_disk_model(generic_device)
        locate == get_disk_led_locate_path(enclosure_slot, split_dev[6])
        fault == get_disk_led_fault_path(enclosure_slot, split_dev[6])
    IN  [status |->
             IF \/ temperature.panic
                \/ ~ToolRuns(SGINFO)
                \/ vendor.panic
                \/ model.panic
             THEN "panic"
             ELSE IF locate.exit \/ fault.exit THEN "exit"
             ELSE "ok",
         enclosure |-> split_dev[5],
         slot |-> get_slot[1],
         device_path |-> device_path,
         temperature |-> temperature.value,
         fw_revision |-> get_disk_firmware(env.sginfo_out),
         vendor |-> vendor.value,
         model |-> model.value,
         serial |-> get_disk_serial(generic_device),
         disk_locate_led |-> locate.value,
         disk_fault_led |-> fault.value]

\* the loop of disks.rs:425-440 cut after its first turn
DetailsLoopFirstEntry(generic_device, physical_device, enclosure_slot, physical_path, acc) ==
    IF physical_path = <<>> THEN acc
    ELSE DetailsOfEntry(generic_device, physical_device, enclosure_slot,
                        Head(physical_path))

\* the loop of disks.rs:425-440: each entry overwrites what the one before
\* assigned; a panic or an exit ends the loop
RECURSIVE DetailsLoop(_, _, _, _, _)
DetailsLoop(generic_device, physical_device, enclosure_slot, physical_path, acc) ==
    IF physical_path = <<>> \/ acc.status # "ok" THEN acc
    ELSE DetailsLoop(generic_device, physical_device, enclosure_slot,
                     Tail(physical_path),
                     DetailsOfEntry(generic_device, physical_device,
                                    enclosure_slot, Head(physical_path)))

\* get_disk_details(device, enclosure_slot) (disks.rs:382-455)
get_disk_details(device, enclosure_slot) ==
    LET path_tostr_spl == Split(device, "/")
        slot_name == path_tostr_spl[6]
        generic_device ==
            sys_class_enclosure \o enclosure_slot \o <<"/">> \o slot_name \o <<"/","d","e","v","i","c","e">>
        physical_device == generic_device \o <<"/","s","c","s","i","_","g","e","n","e","r","i","c","/">>
    IN  IF verify_sysclass_folder_exits(sys_class_enclosure)
        THEN [NoDetails EXCEPT !.status = "exit"]
        ELSE IF SlotNameAccepted(slot_name) /\ path_exists(physical_device)
        THEN DetailsLoop(generic_device, physical_device, enclosure_slot,
                         ReadDir(physical_device), NoDetails)
        ELSE NoDetails

\* ------------------------------------------------------------------------
\* get_disks_per_enclosure and jbod_disk_map (disks.rs:465-521)
\* ------------------------------------------------------------------------

\* disks.rs:491 with the test dropped: every slot gives a Disk
DiskEmittedAlways(details) == TRUE

\* disks.rs:491: a Disk is pushed only for a non-empty device path
DiskEmitted(details) == details.device_path # <<>>

\* the Disk of disks.rs:492-504 with the table left unread
MakeDiskNoLookup(details, sg_map) ==
    [enclosure       |-> details.enclosure,
     slot            |-> details.slot,
     device_map      |-> NONE,
     device_path     |-> details.device_path,
     temperature     |-> details.temperature,
     fw_revision     |-> details.fw_revision,
     vendor          |-> details.vendor,
     model           |-> details.model,
     serial          |-> details.serial,
     led_locate_path |-> details.disk_locate_led,
     led_fault_path  |-> details.disk_fault_led]

\* the Disk of disks.rs:492-504 with the enclosure left empty
MakeDiskNoEnclosure(details, sg_map) ==
    [enclosure       |-> <<>>,
     slot            |-> details.slot,
     device_map      |-> sg_map[details.device_path],
     device_path     |-> details.device_path,
     temperature     |-> details.temperature,
     fw_revision     |-> details.fw_revision,
     vendor          |-> details.vendor,
     model           |-> details.model,
     serial          |-> details.serial,
     led_locate_path |-> details.disk_locate_led,
     led_fault_path  |-> details.disk_fault_led]

\* the Disk of disks.rs:492-504 for the details of one slot
MakeDisk(details, sg_map) ==
    [enclosure       |-> details.enclosure,
     slot            |-> details.slot,
     device_map      |-> sg_map[details.device_path],
     device_path     |-> details.device_path,
     temperature     |-> details.temperature,
     fw_revision     |-> details.fw_revision,
     vendor          |-> details.vendor,
     model           |-> details.model,
     serial          |-> details.serial,
     led_locate_path |-> details.disk_locate_led,
     led_fault_path  |-> details.disk_fault_led]

\* the loop of disks.rs:474-506 over the entries `paths` of one enclosure's
\* directory; acc is [status, disk]
RECURSIVE SlotLoop(_, _, _, _)
SlotLoop(enclosure, paths, sg_map, acc) ==
    IF paths = <<>> \/ acc.status # "ok" THEN acc
    ELSE LET path_tostr ==
                 JoinPath(sys_class_enclosure \o enclosure.slot, Head(paths))
             details == get_disk_details(path_tostr, enclosure.slot)
         IN  IF details.status # "ok"
             THEN [acc EXCEPT !.status = details.status]
             ELSE IF ~DiskEmitted(details)
             THEN SlotLoop(enclosure, Tail(paths), sg_map, acc)
             ELSE IF details.device_path \notin DOMAIN sg_map
             THEN [acc EXCEPT !.status = "panic"]
             ELSE SlotLoop(enclosure, Tail(paths), sg_map,
                           [acc EXCEPT !.disk =
                                Append(@, MakeDisk(details, sg_map))])

\* the loop of disks.rs:472-507 over the enclosures; read_dir(..).unwrap()
\* panics for an enclosure without a directory
RECURSIVE EnclosureLoop(_, _, _)
EnclosureLoop(enc_vec, sg_map, acc) ==
    IF enc_vec = <<>> \/ acc.status # "ok" THEN acc
    ELSE LET enclosure == Head(enc_vec)
             dir == sys_class_enclosure \o enclosure.slot
         IN  IF ~IsDir(dir)
             THEN [acc EXCEPT !.status = "panic"]
             ELSE EnclosureLoop(Tail(enc_vec), sg_map,
                                SlotLoop(enclosure, ReadDir(dir), sg_map, acc))

\* get_disks_per_enclosure(enc_vec) (disks.rs:465-510): [status, disk];
\* the vector is returned only when status is "ok"
get_disks_per_enclosure(enc_vec) ==
    LET sg_map == IF ToolRuns(SG_MAP) THEN get_disk_sd_map(env.sg_map_out)
                  ELSE MapPanic
        result ==
            IF sg_map.panic THEN [status |-> "panic", disk |-> <<>>]
            ELSE IF verify_sysclass_folder_exits(sys_class_enclosure)
            THEN [status |-> "exit", disk |-> <<>>]
            ELSE EnclosureLoop(enc_vec, sg_map.disks,
                               [status |-> "ok", disk |-> <<>>])
    IN  IF result.status = "ok" THEN result
        ELSE [status |-> result.status, disk |-> <<>>]

\* jbod_disk_map() (disks.rs:516-521), `enclosures` being what
\* BackPlane::get_enclosure() returns; get_enclosure() spawns `lsscsi`
\* and, for each enclosure, `sg_inq` (enclosure.rs:159, 280)
jbod_disk_map ==
    IF ~ToolRuns(LSSCSI) \/ (enclosures # <<>> /\ ~ToolRuns(SG_INQ))
    THEN [status |-> "panic", disk |-> <<>>]
    ELSE get_disks_per_enclosure(enclosures)

\* ------------------------------------------------------------------------
\* Enclosure enumeration (enclosure.rs:154-190, 279-307)
\* ------------------------------------------------------------------------

\* no get_enclosure_details() call has returned yet
NoInquiry ==
    [status |-> "none", vendor |-> <<>>, ident |-> <<>>, rev |-> <<>>,
     serial |-> <<>>]

\* enclosure.rs:155-158: the four fields start as "NONE"
InquiryStart ==
    [status |-> "ok", vendor |-> NONE, ident |-> NONE, rev |-> NONE,
     serial |-> NONE]

\* enclosure.rs:166-171: the vendor field after the line `output`
InquiryVendor(output, acc) ==
    IF Contains(output, <<"V","e","n","d","o","r">>)
    THEN Trim(Remove(output, <<"V","e","n","d","o","r"," ","i","d","e","n","t","i","f","i","c","a","t","i","o","n",":">>))
    ELSE acc.vendor

\* enclosure.rs:172-177: the identification field after the line `output`
InquiryIdent(output, acc) ==
    IF Contains(output, <<"i","d","e","n","t","i","f","i","c","a","t","i","o","n">>)
    THEN Trim(Remove(output, <<"P","r","o","d","u","c","t"," ","i","d","e","n","t","i","f","i","c","a","t","i","o","n",":">>))
    ELSE acc.ident

\* enclosure.rs:178-183: the revision field after the line `output`
InquiryRev(output, acc) ==
    IF Contains(output, <<"r","e","v","i","s","i","o","n">>)
    THEN Trim(Remove(output, <<"P","r","o","d","u","c","t"," ","r","e","v","i","s","i","o","n"," ","l","e","v","e","l",":">>))
    ELSE acc.rev

\* enclosure.rs:184-186: the serial field after the line `output`
InquirySerial(output, acc) ==
    IF Contains(output, <<"s","e","r","i","a","l">>)
    THEN Trim(Remove(output, <<"U","n","i","t"," ","s","e","r","i","a","l"," ","n","u","m","b","e","r",":">>))
    ELSE acc.serial

\* the loop of enclosure.rs:165-187 over the output's lines: every line is
\* put to the four tests, one after the other
RECURSIVE InquiryLoop(_, _)
InquiryLoop(lines, acc) ==
    IF lines = <<>> THEN acc
    ELSE InquiryLoop(Tail(lines),
                     [status |-> "ok",
                      vendor |-> InquiryVendor(Head(lines), acc),
                      ident  |-> InquiryIdent(Head(lines), acc),
                      rev    |-> InquiryRev(Head(lines), acc),
                      serial |-> InquirySerial(Head(lines), acc)])

\* enclosure.rs:154-190: the (vendor, ident, rev, serial) parsed from the
\* inquiry tool's output `sginq_output`
get_enclosure_details(sginq_output) ==
    InquiryLoop(Split(sginq_output, "\n"), InquiryStart)

\* enclosure.rs:289-290: split(' ') with the empty pieces dropped
RECURSIVE RetainNonEmpty(_)
RetainNonEmpty(pieces) ==
    IF pieces = <<>> THEN <<>>
    ELSE IF Head(pieces) = <<>> THEN RetainNonEmpty(Tail(pieces))
    ELSE <<Head(pieces)>> \o RetainNonEmpty(Tail(pieces))

\* enclosure.rs:292: position(|&r| r.contains("/dev/")) from index k on;
\* 0 stands for None
RECURSIVE DevicePosition(_, _)
DevicePosition(s_output, k) ==
    IF k > Len(s_output) THEN 0
    ELSE IF Contains(s_output[k], <<"/","d","e","v","/">>) THEN k
    ELSE DevicePosition(s_output, k + 1)

\* enclosure.rs:296: replace(&['[', ']'][..], "")
RECURSIVE RemoveBrackets(_)
RemoveBrackets(s) ==
    IF s = <<>> THEN <<>>
    ELSE IF Head(s) \in {"[", "]"} THEN RemoveBrackets(Tail(s))
    ELSE <<Head(s)>> \o RemoveBrackets(Tail(s))

\* the line taken at the position another invocation's loop has reached
ListingLineShared ==
    env.lsscsi_out[IF map_lineno < Len(env.lsscsi_out)
                   THEN map_lineno + 1 ELSE Len(env.lsscsi_out)]

\* enclosure.rs:287: the line of the listing the loop is about to take
ListingLine == env.lsscsi_out[enc_lineno + 1]

\* enclosure.rs:288: the line is of the enclosure class
EnclosureClass(p_output) == Contains(p_output, <<"e","n","c","l","o","s","u">>)

\* enclosure.rs:295-302: the Enclosure pushed for the tokens `s_output`,
\* the device token at `device_index` and the inquiry result `details`
MakeEnclosure(s_output, device_index, details) ==
    [slot        |-> RemoveBrackets(s_output[1]),
     device_path |-> s_output[device_index],
     vendor      |-> details.vendor,
     model       |-> details.ident,
     revision    |-> details.rev,
     serial      |-> details.serial]

\* enclosure.rs:287-288: a line that is not of the enclosure class is passed
EncSkipLine ==
    /\ enc_pc = "scan"
    /\ enc_lineno < Len(env.lsscsi_out)
    /\ ~EnclosureClass(ListingLine)
    /\ enc_lineno' = enc_lineno + 1
    /\ UNCHANGED <<enc_pc, enc_list, inq_log, inq_details, envVars, fanVars,
                   mapVars, procVars, tempVars, promVars>>

\* enclosure.rs:288-303: an enclosure-class line with a device token; the
\* inquiry tool is run on the device and the Enclosure is pushed
EncPush ==
    /\ enc_pc = "scan"
    /\ enc_lineno < Len(env.lsscsi_out)
    /\ EnclosureClass(ListingLine)
    /\ ToolRuns(SG_INQ)
    /\ \E s_output \in {RetainNonEmpty(Split(ListingLine, " "))} :
         /\ DevicePosition(s_output, 1) # 0
         /\ \E sginq_output \in env.sg_inq_out :
              \E details \in {get_enclosure_details(sginq_output)} :
                /\ inq_details' = details
                /\ inq_log' = Append(inq_log, sginq_output)
                /\ enc_list' =
                     Append(enc_list,
                            MakeEnclosure(s_output,
                                          DevicePosition(s_output, 1),
                                          details))
    /\ enc_lineno' = enc_lineno + 1
    /\ UNCHANGED <<enc_pc, envVars, fanVars, mapVars, procVars, tempVars, promVars>>

\* enclosure.rs:292: unwrap() of None on an enclosure-class line without a
\* device token; enclosure.rs:159-162: expect() on an inquiry tool that
\* cannot be run.  Either panic ends the enumeration: nothing is returned
EncPanic ==
    /\ enc_pc = "scan"
    /\ enc_lineno < Len(env.lsscsi_out)
    /\ EnclosureClass(ListingLine)
    /\ \/ DevicePosition(RetainNonEmpty(Split(ListingLine, " ")), 1) = 0
       \/ ~ToolRuns(SG_INQ)
    /\ enc_pc' = "panic"
    /\ UNCHANGED <<enc_lineno, enc_list, inq_log, inq_details, envVars,
                   fanVars, mapVars, procVars, tempVars, promVars>>

\* enclosure.rs:306: the vector is returned
EncReturn ==
    /\ enc_pc = "scan"
    /\ enc_lineno = Len(env.lsscsi_out)
    /\ enc_pc' = "done"
    /\ UNCHANGED <<enc_lineno, enc_list, inq_log, inq_details, envVars,
                   fanVars, mapVars, procVars, tempVars, promVars>>

\* enclosure.rs:154-190: one call of get_enclosure_details on the output
\* env.sg_inq_out holds
InqCall ==
    /\ enc_pc = "inq"
    /\ \E sginq_output \in env.sg_inq_out :
         inq_details' = get_enclosure_details(sginq_output)
    /\ enc_pc' = "inq_done"
    /\ UNCHANGED <<enc_lineno, enc_list, inq_log, envVars, fanVars, mapVars,
                   procVars, tempVars, promVars>>

\* ------------------------------------------------------------------------
\* get_disk_temperature alone (disks.rs:83-93)
\* ------------------------------------------------------------------------

\* disks.rs:84-92: the tool ran and printed three lines or more; the digits
\* of the third are returned
TempReturn ==
    /\ temp_pc = "call"
    /\ ToolRuns(SCSI_TEMP)
    /\ \E r \in {get_disk_temperature(env.scsi_temp_out)} :
         /\ ~r.panic
         /\ temp_result' = r.value
    /\ temp_pc' = "done"
    /\ UNCHANGED <<envVars, fanVars, mapVars, encVars, procVars, promVars>>

\* disks.rs:87: expect() on a tool that cannot be run; disks.rs:90: the
\* index out of bounds on an output of fewer than three lines
TempPanic ==
    /\ temp_pc = "call"
    /\ \/ ~ToolRuns(SCSI_TEMP)
       \/ get_disk_temperature(env.scsi_temp_out).panic
    /\ temp_pc' = "panic"
    /\ UNCHANGED <<temp_result, envVars, fanVars, mapVars, encVars, procVars,
                   promVars>>
\* ------------------------------------------------------------------------
\* set_disk_led_locate, set_disk_led_fault (disks.rs:279-370)
\* ------------------------------------------------------------------------

\* the filter of disks.rs:284 and 331 reduced to the generic name alone
DiskMatchesPathOnly(v, disk) == v.device_path = disk

\* the filter of disks.rs:284 and 331
DiskMatches(v, disk) == v.device_path = disk \/ v.device_map = disk

\* what one set_disk_led_* call did
LedEffect(kind, disk, option, status, rebuilt, rebuild, found, writes, prints) ==
    [kind |-> kind, disk |-> disk, option |-> option, called |-> TRUE,
     status |-> status, rebuilt |-> rebuilt, jbod |-> rebuild,
     found_disk |-> found, writes |-> writes, prints |-> prints]

NoRebuild == [status |-> "none", disk |-> <<>>]

\* no set_disk_led_* call yet
NoLedOp ==
    [kind |-> "none", disk |-> <<>>, option |-> <<>>, called |-> FALSE,
     status |-> "ok", rebuilt |-> FALSE, jbod |-> NoRebuild,
     found_disk |-> <<>>, writes |-> <<>>, prints |-> <<>>]

\* disks.rs:299-320 and 346-367: the write to the control file of the first
\* matching disk, or the words printed when the file does not exist
LedWrite(kind, disk, option, rebuild, found_disk, led_path) ==
    IF path_exists(led_path)
    THEN LedEffect(kind, disk, option, "ok", TRUE, rebuild, found_disk,
                   <<[path |-> led_path, data |-> option]>>, <<"Disk slot">>)
    ELSE LedEffect(kind, disk, option, "ok", TRUE, rebuild, found_disk, <<>>,
                   <<IF kind = "locate" THEN "does not expose locate led"
                     ELSE "does not expose fault led">>)

\* the filter's result handled as set_disk_led_locate does for either kind:
\* the locate path is read whatever the indicator
LedFilterLocateOnly(kind, disk, option, rebuild, found_disk) ==
    IF found_disk = <<>>
    THEN LedEffect(kind, disk, option, "ok", TRUE, rebuild, <<>>, <<>>, <<>>)
    ELSE LedWrite(kind, disk, option, rebuild, found_disk,
                  found_disk[1].led_locate_path)

\* disks.rs:284-298 and 331-345: the disks the filter keeps
LedFilter(kind, disk, option, rebuild, found_disk) ==
    IF found_disk = <<>>
    THEN LedEffect(kind, disk, option, "ok", TRUE, rebuild, <<>>, <<>>, <<>>)
    ELSE LedWrite(kind, disk, option, rebuild, found_disk,
                  IF kind = "locate" THEN found_disk[1].led_locate_path
                  ELSE found_disk[1].led_fault_path)

\* disks.rs:281-283 and 328-330: the topology is rebuilt; a panic or an
\* exit inside jbod_disk_map() ends the process
LedRebuilt(kind, disk, option, rebuild) ==
    IF rebuild.status = "panic"
    THEN LedEffect(kind, disk, option, "panic", TRUE, rebuild, <<>>, <<>>, <<>>)
    ELSE IF rebuild.status = "exit"
    THEN LedEffect(kind, disk, option, "exit1", TRUE, rebuild, <<>>, <<>>,
                   <<"jbod-rs not supported in this machine">>)
    ELSE LedFilter(kind, disk, option, rebuild,
                   SelectSeq(rebuild.disk, LAMBDA v : DiskMatches(v, disk)))

\* the body of set_disk_led_* without the test of disks.rs:280 and 327
SetDiskLedNoCheck(kind, disk, option) ==
    LedRebuilt(kind, disk, option, jbod_disk_map)

\* the body shared by set_disk_led_locate and set_disk_led_fault, which
\* differ in the Disk field they read and in the words they print
SetDiskLed(kind, disk, option) ==
    IF ~path_exists(disk)
    THEN LedEffect(kind, disk, option, "exit1", FALSE, NoRebuild, <<>>, <<>>,
                   <<"device not found">>)
    ELSE LedRebuilt(kind, disk, option, jbod_disk_map)

\* set_disk_led_locate(disk, option) (disks.rs:279-323)
set_disk_led_locate(disk, option) == SetDiskLed("locate", disk, option)

\* set_disk_led_fault without the rebuild of disks.rs:328: the list the
\* call before it built is read again
set_disk_led_fault_no_rebuild(disk, option) ==
    IF ~path_exists(disk)
    THEN LedEffect("fault", disk, option, "exit1", FALSE, NoRebuild, <<>>, <<>>,
                   <<"device not found">>)
    ELSE [LedRebuilt("fault", disk, option, jbod) EXCEPT !.rebuilt = FALSE]

\* set_disk_led_fault(disk, option) (disks.rs:326-370)
set_disk_led_fault(disk, option) == SetDiskLed("fault", disk, option)

\* fs::write(path, data) for each write of a call, on the files
RECURSIVE FilesAfter(_, _)
FilesAfter(files, writes) ==
    IF writes = <<>> THEN files
    ELSE FilesAfter(MapInsert(files, Head(writes).path, Head(writes).data),
                    Tail(writes))

\* the process state after a set_disk_led_* call
ApplyLedEffect(effect, next_pc) ==
    /\ led_op' = effect
    /\ fs_files' = FilesAfter(fs_files, effect.writes)
    /\ fs_writes' = fs_writes \o effect.writes
    /\ stdout' = stdout \o effect.prints
    /\ rebuilds' = IF effect.rebuilt THEN rebuilds + 1 ELSE rebuilds
    /\ jbod' = IF effect.rebuilt THEN effect.jbod ELSE jbod
    /\ pc' = IF effect.status = "ok" THEN next_pc ELSE effect.status

\* ------------------------------------------------------------------------
\* jbod_led_switch (disks.rs:531-574) and `list -d` (main.rs:96-98)
\* ------------------------------------------------------------------------

\* jbod_led_switch without the test of disks.rs:537: --on with --off goes on
\* to the locate and fault blocks
LedUsageIgnored ==
    /\ pc = "start"
    /\ cmd.sub = "led"
    /\ cmd.on /\ cmd.off
    /\ \E effect \in {IF cmd.locate.present
                       THEN set_disk_led_locate(cmd.locate.value, <<"1">>)
                       ELSE NoLedOp} :
         ApplyLedEffect(effect, "fault")
    /\ UNCHANGED <<env, enclosures, cmd, fanVars, mapVars, encVars, tempVars,
                   promVars>>

\* disks.rs:537-545: --on with --off
LedUsageError ==
    /\ pc = "start"
    /\ cmd.sub = "led"
    /\ cmd.on /\ cmd.off
    /\ stdout' = Append(stdout, "Not christmas yet")
    /\ pc' = "exit1"
    /\ UNCHANGED <<envVars, fs_writes, rebuilds, jbod, led_op, cmd, fanVars,
                   mapVars, encVars, tempVars, promVars>>

\* disks.rs:547-558 with a locate device: the call for --on or for --off
LedLocate ==
    /\ pc = "start"
    /\ cmd.sub = "led"
    /\ ~(cmd.on /\ cmd.off)
    /\ cmd.locate.present
    /\ cmd.on \/ cmd.off
    /\ \E effect \in {set_disk_led_locate(cmd.locate.value,
                                            IF cmd.on THEN <<"1">> ELSE <<"0">>)} :
         ApplyLedEffect(effect, "fault")
    /\ UNCHANGED <<env, enclosures, cmd, fanVars, mapVars, encVars, tempVars,
                   promVars>>

\* disks.rs:547-558 without a locate device, or with neither --on nor --off
LedNoLocate ==
    /\ pc = "start"
    /\ cmd.sub = "led"
    /\ ~(cmd.on /\ cmd.off)
    /\ ~cmd.locate.present \/ (~cmd.on /\ ~cmd.off)
    /\ pc' = "fault"
    /\ UNCHANGED <<envVars, cmd, stdout, fs_writes, rebuilds, jbod, led_op,
                   fanVars, mapVars, encVars, tempVars, promVars>>

\* disks.rs:560-573 with a fault device: the call for --on or for --off,
\* then Ok(())
LedFault ==
    /\ pc = "fault"
    /\ cmd.fault.present
    /\ cmd.on \/ cmd.off
    /\ \E effect \in {set_disk_led_fault(cmd.fault.value,
                                           IF cmd.on THEN <<"1">> ELSE <<"0">>)} :
         ApplyLedEffect(effect, "done")
    /\ UNCHANGED <<env, enclosures, cmd, fanVars, mapVars, encVars, tempVars,
                   promVars>>

\* disks.rs:560-573 without a fault device, or with neither --on nor --off
LedNoFault ==
    /\ pc = "fault"
    /\ ~cmd.fault.present \/ (~cmd.on /\ ~cmd.off)
    /\ pc' = "done"
    /\ UNCHANGED <<envVars, cmd, stdout, fs_writes, rebuilds, jbod, led_op,
                   fanVars, mapVars, encVars, tempVars, promVars>>

\* the characters of the model's names in the order of their bytes
ByteOrder ==
    <<" ",",","/","0","1","2","3","4","5","6","7","8","9",":","A","B","C","D","E","F","G","H","I","J","K","L","M","N","O","P","Q","R","S","T","U","V","W","X","Y","Z","a","b","c","d","e","f","g","h","i","j","k","l","m","n","o","p","q","r","s","t","u","v","w","x","y","z">>

ByteRank(c) == Find(ByteOrder, c)

\* Ord for String: a < b, byte by byte
RECURSIVE StringLess(_, _)
StringLess(a, b) ==
    IF b = <<>> THEN FALSE
    ELSE IF a = <<>> THEN TRUE
    ELSE IF ByteRank(Head(a)) # ByteRank(Head(b))
    THEN ByteRank(Head(a)) < ByteRank(Head(b))
    ELSE StringLess(Tail(a), Tail(b))

\* d put in a list sorted by slot, after the disks whose slot is not greater
RECURSIVE InsertBySlot(_, _)
InsertBySlot(sorted, d) ==
    IF sorted = <<>> THEN <<d>>
    ELSE IF StringLess(d.slot, Head(sorted).slot)
    THEN <<d>> \o sorted
    ELSE <<Head(sorted)>> \o InsertBySlot(Tail(sorted), d)

\* main.rs:101: disks.sort_by_key(|d| d.slot.clone()), a stable sort
RECURSIVE SortBySlot(_, _)
SortBySlot(disk, sorted) ==
    IF disk = <<>> THEN sorted
    ELSE SortBySlot(Tail(disk), InsertBySlot(sorted, Head(disk)))

\* main.rs:104-123: the rows printed under one enclosure
RECURSIVE DiskRows(_, _)
DiskRows(enc, sorted) ==
    IF sorted = <<>> THEN <<>>
    ELSE (IF enc.slot = Head(sorted).enclosure
          THEN <<[row         |-> "disk",
                  device_path |-> Head(sorted).device_path,
                  device_map  |-> Head(sorted).device_map,
                  slot        |-> Head(sorted).slot]>>
          ELSE <<>>)
         \o DiskRows(enc, Tail(sorted))

\* main.rs:102-125: each enclosure, then its disks
RECURSIVE ListRows(_, _)
ListRows(enclosure, sorted) ==
    IF enclosure = <<>> THEN <<>>
    ELSE <<[row |-> "enclosure", slot |-> Head(enclosure).slot]>>
         \o DiskRows(Head(enclosure), sorted)
         \o ListRows(Tail(enclosure), sorted)

\* main.rs:98-127: `list -d` rebuilds the topology, sorts its copy of the
\* list by slot and prints each enclosure with its disks
DiskList ==
    /\ pc = "start"
    /\ cmd.sub = "list"
    /\ \E rebuild \in {jbod_disk_map} :
         /\ jbod' = rebuild
         /\ pc' = IF rebuild.status = "ok" THEN "done"
                  ELSE IF rebuild.status = "exit" THEN "exit1" ELSE "panic"
         /\ stdout' = IF rebuild.status = "exit"
                      THEN Append(stdout,
                                  "jbod-rs not supported in this machine")
                      ELSE IF rebuild.status = "ok"
                      THEN stdout \o ListRows(enclosures,
                                              SortBySlot(rebuild.disk, <<>>))
                      ELSE stdout
    /\ rebuilds' = rebuilds + 1
    /\ UNCHANGED <<envVars, cmd, fs_writes, led_op, fanVars, mapVars, encVars, tempVars,
                   promVars>>

\* ------------------------------------------------------------------------
\* Startup (main.rs:194-196, helper.rs:91-117)
\* ------------------------------------------------------------------------

\* helper.rs:92-101: the packages pushed to binaries_not_found
binaries_not_found ==
    (IF ~path_exists(LSSCSI) THEN <<"lsscsi">> ELSE <<>>)
    \o (IF ~path_exists(SG_INQ) THEN <<"sg3-utils">> ELSE <<>>)
    \o (IF ~path_exists(SCSI_TEMP) THEN <<"sg3-utils: scsi_temperature">>
        ELSE <<>>)

\* main.rs:195: Util::verify_binary_needed() before the command line is
\* matched; helper.rs:103-116 prints the packages and exits
Startup ==
    /\ pc = "boot"
    /\ IF binaries_not_found # <<>>
       THEN /\ stdout' = stdout \o <<"Packages missing">> \o binaries_not_found
            /\ pc' = "exit1"
       ELSE /\ stdout' = stdout
            /\ pc' = "start"
    /\ UNCHANGED <<envVars, cmd, fs_writes, rebuilds, jbod, led_op, fanVars,
                   mapVars, encVars, tempVars, promVars>>
\* ------------------------------------------------------------------------
\* The exporter (prometheus.rs)
\* ------------------------------------------------------------------------

\* what one line of an enclosure's cooling stream and the RPM query can be
\* at a scrape
PromFanLines == { <<"F","a","n"," ","A"," ","[","1","]">>, <<"C","o","o","l","i","n","g">> }

PromRpmOutputs ==
    { <<"s","t","a","t","u","s",":"," ","O","K","\n","A","c","t","u","a","l"," ","s","p","e","e","d",","," ","4","2","0","0"," ","r","p","m",","," ","F","a","n"," ","a","t"," ","l","o","w","e","s","t"," ","s","p","e","e","d","\n">>,
      <<"A","c","t","u","a","l"," ","s","p","e","e","d","=","4","2","0","0"," ","r","p","m","\n">> }

\* no reply sent yet
NoResponse == [sent |-> FALSE, temperature |-> EmptyMap]

\* the magnitudes an i64 holds: i64::MAX, and one more below zero
I64MaxDigits == <<"9","2","2","3","3","7","2","0","3","6","8","5","4","7","7","5","8","0","7">>
I64MinDigits == <<"9","2","2","3","3","7","2","0","3","6","8","5","4","7","7","5","8","0","8">>

RECURSIVE StripLeadingZeros(_)
StripLeadingZeros(s) ==
    IF s # <<>> /\ Head(s) = "0" THEN StripLeadingZeros(Tail(s)) ELSE s

\* whether the decimal digits `s` exceed the magnitude `limit`
ExceedsMagnitude(s, limit) ==
    LET z == StripLeadingZeros(s)
    IN  Len(z) > Len(limit) \/ (Len(z) = Len(limit) /\ StringLess(limit, z))

\* line 119: disk.temperature.parse() to the i64 that IntGauge::set takes;
\* Err for the empty string, a lone sign, any char that is no digit and a
\* value outside i64
ParseI64(s) ==
    LET negative == s # <<>> /\ Head(s) = "-"
        digits == IF s # <<>> /\ Head(s) \in {"+", "-"} THEN Tail(s) ELSE s
    IN  IF digits = <<>> \/ \E k \in 1..Len(digits) : ~IsDigit(digits[k])
        THEN [ok |-> FALSE, val |-> 0]
        ELSE IF ExceedsMagnitude(digits, IF negative THEN I64MinDigits
                                         ELSE I64MaxDigits)
        THEN [ok |-> FALSE, val |-> 0]
        ELSE LET v == FoldDigits(digits, [some |-> FALSE, val |-> 0]).val
             IN  [ok |-> TRUE, val |-> IF negative THEN 0 - v ELSE v]

\* a set that leaves the series of `labels` alone in the vector
GaugeSetAlone(gauge, labels, value) == [l \in {labels} |-> value]

\* with_label_values(labels).set(value) on a gauge vector: the series of
\* `labels` is created or overwritten, every other series is kept
GaugeSet(gauge, labels, value) ==
    [l \in DOMAIN gauge \cup {labels} |->
        IF l = labels THEN value ELSE gauge[l]]

\* lines 118-126: the loop over the sorted disks; a temperature that does
\* not parse sets nothing (line 124 only prints)
RECURSIVE SetTemperatures(_, _)
SetTemperatures(gauge, sorted) ==
    IF sorted = <<>> THEN gauge
    ELSE LET disk == Head(sorted)
             temperature == ParseI64(disk.temperature)
         IN  SetTemperatures(
                 IF temperature.ok
                 THEN GaugeSet(gauge, <<disk.slot, disk.enclosure>>,
                               temperature.val)
                 ELSE gauge,
                 Tail(sorted))

\* enclosure.rs:235-272 for enclosures whose stream is the one line `line`
\* and whose RPM query gives `out`: [status, fan]
RECURSIVE PromFanLoop(_, _, _, _)
PromFanLoop(encs, line, out, acc) ==
    IF encs = <<>> THEN acc
    ELSE LET enclosure == Head(encs)
             parsed == FanLineParse(line)
             got == get_enclosure_fan_speed(out)
         IN  IF ~parsed.candidate
                \/ FanIsPresent(acc.fan, parsed.index, enclosure)
             THEN PromFanLoop(Tail(encs), line, out, acc)
             ELSE IF got.panic THEN [status |-> "panic", fan |-> <<>>]
             ELSE PromFanLoop(Tail(encs), line, out,
                      [acc EXCEPT !.fan =
                          Append(@, [slot        |-> enclosure.slot,
                                     serial      |-> enclosure.serial,
                                     description |-> parsed.description,
                                     index       |-> parsed.index,
                                     speed       |-> got.speed,
                                     comment     |-> got.comment])])

\* get_enclosure() panics when `lsscsi` or `sg_inq` cannot be spawned
\* (enclosure.rs:159, 280)
get_enclosure_panics ==
    ~ToolRuns(LSSCSI) \/ (enclosures # <<>> /\ ~ToolRuns(SG_INQ))

\* line 103: BackPlane::get_enclosure_fan()
PromFans(line, out) ==
    IF get_enclosure_panics THEN [status |-> "panic", fan |-> <<>>]
    ELSE PromFanLoop(enclosures, line, out, [status |-> "ok", fan |-> <<>>])

\* f put in a list sorted by index, after the fans whose index is not greater
RECURSIVE InsertByIndex(_, _)
InsertByIndex(sorted, f) ==
    IF sorted = <<>> THEN <<f>>
    ELSE IF StringLess(f.index, Head(sorted).index)
    THEN <<f>> \o sorted
    ELSE <<Head(sorted)>> \o InsertByIndex(Tail(sorted), f)

\* line 104: enclosure_fan.sort_by_key(|f| f.index.clone())
RECURSIVE SortByIndex(_, _)
SortByIndex(fan, sorted) ==
    IF fan = <<>> THEN sorted
    ELSE SortByIndex(Tail(fan), InsertByIndex(sorted, Head(fan)))

\* lines 105-108: the loop over the sorted fans
RECURSIVE SetFans(_, _)
SetFans(gauge, sorted) ==
    IF sorted = <<>> THEN gauge
    ELSE SetFans(GaugeSet(gauge,
                          <<Head(sorted).description, Head(sorted).index>>,
                          Head(sorted).speed),
                 Tail(sorted))

\* One scrape, metrics_handler() from its first line to its reply. A panic
\* of the engine ends the request with what was set before it and no reply;
\* the exit of verify_sysclass_folder_exits ends the process.
MetricsHandler ==
    /\ prom_pc = "serve"
    /\ scrapes < MaxScrapes
    /\ scrapes' = scrapes + 1
    /\ \E line \in PromFanLines, out \in PromRpmOutputs :
         \E enclosure_fan_got \in {PromFans(line, out)},
            rebuild \in {jbod_disk_map} :
           IF enclosure_fan_got.status = "panic"
           THEN /\ response' = NoResponse
                /\ UNCHANGED <<prom_pc, fan_rpm, number_of_enclosures,
                               slot_temperature, disks_temperature>>
           ELSE /\ fan_rpm' =
                     SetFans(fan_rpm, SortByIndex(enclosure_fan_got.fan, <<>>))
                /\ number_of_enclosures' = Len(enclosures)
                /\ disks_temperature' = rebuild
                /\ prom_pc' = IF rebuild.status = "exit" THEN "exit1"
                              ELSE "serve"
                /\ IF rebuild.status = "ok"
                   THEN /\ slot_temperature' =
                             SetTemperatures(slot_temperature,
                                             SortBySlot(rebuild.disk, <<>>))
                        /\ response' = [sent        |-> TRUE,
                                        temperature |-> slot_temperature']
                   ELSE /\ response' = NoResponse
                        /\ UNCHANGED slot_temperature
    /\ UNCHANGED <<envVars, fanVars, mapVars, encVars, tempVars, procVars>>

\* ------------------------------------------------------------------------
\* Environments of the jbod process
\* ------------------------------------------------------------------------

\* the most slot directories the sysfs tree holds
MaxSlots == 2

\* the most lines `sg_map` prints in the check of get_disk_sd_map alone
MaxMapLines == 3

\* the most lines an inquiry output holds
MaxInqLines == 4

\* the most lines a device listing holds
MaxListLines == 3

\* the most characters the third line of a temperature output holds
MaxTempChars == 3

\* the two enclosures `lsscsi -g` lists, as get_enclosure() returns them
DiskEnclosures ==
    << [slot |-> <<"1","5",":","0",":","1",":","0">>, serial |-> <<"S","E","R","1","2","3">>, device_path |-> <<"/","d","e","v","/","s","g","9">>],
       [slot |-> <<"1","6",":","0",":","1",":","0">>, serial |-> <<"S","E","R","4","5","6">>, device_path |-> <<"/","d","e","v","/","s","g","8">>] >>

\* slot directory k: its name, its generic device and its block device;
\* every generic node belongs to one slot and every block device to one
\* generic node, as the kernel names them
SlotNames ==
    << <<"S","l","o","t","0","0">>, <<"S","l","o","t"," ","0","1",",","Z","1">>, <<"1">>, <<"D","i","s","k","0","0","2">>, <<"A","r","r","a","y","D","e","v","i","c","e","0","3">> >>
SgNames == << <<"s","g","1","0","5">>, <<"s","g","1">>, <<"s","g","2">>, <<"s","g","3">>, <<"s","g","4">> >>
SdNames == << <<"/","d","e","v","/","s","d","c","z">>, <<"/","d","e","v","/","s","d","a">>, <<"/","d","e","v","/","s","d","b">>, <<"/","d","e","v","/","s","d","c">>, <<"/","d","e","v","/","s","d","d">> >>

\* slot directories alternate between the two enclosures
SlotEnclosure(k) == DiskEnclosures[((k - 1) % 2) + 1].slot

SlotDir(k) == sys_class_enclosure \o SlotEnclosure(k) \o <<"/">> \o SlotNames[k]

\* What a slot directory can look like:
\*   sg:   no device/scsi_generic/ at all, an empty one, or one entry;
\*   map:  the generic node has no line in sg_map's output, a line without
\*         a block device, or a line with one;
\*   locate, fault: whether the control file exists.
SlotKinds ==
    { [sg |-> "nodir", map |-> "absent", locate |-> TRUE,  fault |-> TRUE],
      [sg |-> "empty", map |-> "absent", locate |-> TRUE,  fault |-> TRUE],
      [sg |-> "one",   map |-> "real",   locate |-> TRUE,  fault |-> TRUE],
      [sg |-> "one",   map |-> "real",   locate |-> TRUE,  fault |-> FALSE],
      [sg |-> "one",   map |-> "real",   locate |-> FALSE, fault |-> TRUE],
      [sg |-> "one",   map |-> "real",   locate |-> FALSE, fault |-> FALSE],
      [sg |-> "one",   map |-> "none",   locate |-> TRUE,  fault |-> TRUE],
      [sg |-> "one",   map |-> "absent", locate |-> TRUE,  fault |-> TRUE] }

SlotLists == UNION {[1..n -> SlotKinds] : n \in 0..MaxSlots}

\* the names of the slot directories of one enclosure, in directory order
RECURSIVE EnclosureEntries(_, _, _)
EnclosureEntries(slots, enclosure_slot, k) ==
    IF k > Len(slots) THEN <<>>
    ELSE (IF SlotEnclosure(k) = enclosure_slot THEN <<SlotNames[k]>> ELSE <<>>)
         \o EnclosureEntries(slots, enclosure_slot, k + 1)

\* the directories under the slot directories k, k+1, ...
RECURSIVE SlotDirsFrom(_, _)
SlotDirsFrom(slots, k) ==
    IF k > Len(slots) THEN EmptyMap
    ELSE (SlotDir(k) :> <<<<"d","e","v","i","c","e">>>>)
         @@ ((SlotDir(k) \o <<"/","d","e","v","i","c","e">>)
                :> (IF slots[k].sg = "nodir" THEN <<>>
                    ELSE <<<<"s","c","s","i","_","g","e","n","e","r","i","c">>>>))
         @@ (IF slots[k].sg = "nodir" THEN EmptyMap
             ELSE (SlotDir(k) \o <<"/","d","e","v","i","c","e","/","s","c","s","i","_","g","e","n","e","r","i","c">>)
                     :> (IF slots[k].sg = "one" THEN <<SgNames[k]>> ELSE <<>>))
         @@ SlotDirsFrom(slots, k + 1)

DirsOf(slots) ==
    (StripSlash(sys_class_enclosure)
        :> <<DiskEnclosures[1].slot, DiskEnclosures[2].slot>>)
    @@ ((sys_class_enclosure \o DiskEnclosures[1].slot)
        :> EnclosureEntries(slots, DiskEnclosures[1].slot, 1))
    @@ ((sys_class_enclosure \o DiskEnclosures[2].slot)
        :> EnclosureEntries(slots, DiskEnclosures[2].slot, 1))
    @@ SlotDirsFrom(slots, 1)

\* the files under the slot directories k, k+1, ... and the device nodes
RECURSIVE SlotFilesFrom(_, _)
SlotFilesFrom(slots, k) ==
    IF k > Len(slots) THEN EmptyMap
    ELSE ((SlotDir(k) \o <<"/","d","e","v","i","c","e","/","v","e","n","d","o","r">>) :> <<"A","T","A"," "," "," "," "," ","\n">>)
         @@ ((SlotDir(k) \o <<"/","d","e","v","i","c","e","/","m","o","d","e","l">>) :> <<"S","T","4","0","0","0","N","M","\n">>)
         @@ ((SlotDir(k) \o <<"/","d","e","v","i","c","e","/","v","p","d","_","p","g","8","0">>) :> <<"Z","C","1","2","3","4">>)
         @@ (IF slots[k].locate THEN (SlotDir(k) \o <<"/","l","o","c","a","t","e">>) :> <<"0">>
             ELSE EmptyMap)
         @@ (IF slots[k].fault THEN (SlotDir(k) \o <<"/","f","a","u","l","t">>) :> <<"0">>
             ELSE EmptyMap)
         @@ (IF slots[k].sg = "one" THEN (<<"/","d","e","v","/">> \o SgNames[k]) :> <<>>
             ELSE EmptyMap)
         @@ (IF slots[k].sg = "one" /\ slots[k].map = "real"
             THEN SdNames[k] :> <<>> ELSE EmptyMap)
         @@ SlotFilesFrom(slots, k + 1)

\* none_file: a file named NONE lies in the working directory
FilesOf(slots, none_file) ==
    (<<"/","d","e","v","/","n","u","l","l">> :> <<>>)
    @@ [b \in {LSSCSI, SG_INQ, SCSI_TEMP, SG_MAP, SG_SES, SGINFO} |-> <<>>]
    @@ (IF none_file THEN NONE :> <<>> ELSE EmptyMap)
    @@ SlotFilesFrom(slots, 1)

\* the lines `sg_map` prints: one per generic device, with its block device
\* when it has one
RECURSIVE SgMapLinesFrom(_, _)
SgMapLinesFrom(slots, k) ==
    IF k > Len(slots) THEN <<>>
    ELSE (IF slots[k].sg = "one" /\ slots[k].map = "real"
          THEN << <<"/","d","e","v","/">> \o SgNames[k] \o <<" "," ">> \o SdNames[k] >>
          ELSE IF slots[k].sg = "one" /\ slots[k].map = "none"
          THEN << <<"/","d","e","v","/">> \o SgNames[k] >>
          ELSE <<>>)
         \o SgMapLinesFrom(slots, k + 1)

EnvOf(slots) ==
    [dirs            |-> DirsOf(slots),
     sg_map_out      |-> SgMapLinesFrom(slots, 1),
     scsi_temp_out   |-> <<"/","d","e","v","/","s","g","\n","T","e","m","p","e","r","a","t","u","r","e","\n"," "," ","C","u","r","r","e","n","t"," ","="," ","3","7"," ","C","\n">>,
     sginfo_out      |-> <<"V","e","n","d","o","r",":"," ","A","T","A","\n","R","e","v","i","s","i","o","n"," ","l","e","v","e","l",":"," ","S","N","0","4","\n">>,
     overflow_checks |-> FALSE,
     lsscsi_out      |-> <<>>,
     sg_inq_out      |-> {}]

\* machines without a usable sysfs enclosure tree: the root directory does
\* not exist, or exists and is empty
RootlessEnvs ==
    {[EnvOf(<<>>) EXCEPT !.dirs = EmptyMap],
     [EnvOf(<<>>) EXCEPT !.dirs = StripSlash(sys_class_enclosure) :> <<>>]}

\* no filesystem and no tool: the environment of the checks of a single
\* function
NoEnv ==
    [dirs |-> EmptyMap, sg_map_out |-> <<>>, scsi_temp_out |-> <<>>,
     sginfo_out |-> <<>>, overflow_checks |-> FALSE,
     lsscsi_out |-> <<>>, sg_inq_out |-> {}]

\* ------------------------------------------------------------------------
\* Command lines
\* ------------------------------------------------------------------------

NoArg == [present |-> FALSE, value |-> <<>>]
Arg(v) == [present |-> TRUE, value |-> v]

\* device identifiers given to --locate and --fault: the names of the
\* slots' devices, a path that is no disk, and a path that does not exist
DeviceArgs ==
    {<<"/","d","e","v","/">> \o SgNames[k] : k \in 1..MaxSlots}
        \cup {SdNames[k] : k \in 1..MaxSlots}
        \cup {<<"/","d","e","v","/","n","u","l","l">>, <<"/","d","e","v","/","s","g","9","9">>}

Commands ==
    {[sub |-> "list", locate |-> NoArg, fault |-> NoArg,
      on |-> FALSE, off |-> FALSE]}
    \cup {[sub |-> "led", locate |-> Arg(d), fault |-> NoArg,
           on |-> b, off |-> ~b] : d \in DeviceArgs, b \in BOOLEAN}
    \cup {[sub |-> "led", locate |-> NoArg, fault |-> Arg(d),
           on |-> b, off |-> ~b] : d \in DeviceArgs, b \in BOOLEAN}
    \cup {[sub |-> "led", locate |-> Arg(l), fault |-> Arg(<<"/","d","e","v","/","s","g","1","0","5">>),
           on |-> a, off |-> b] :
             l \in {<<"/","d","e","v","/","s","g","1","0","5">>, <<"/","d","e","v","/","s","g","9","9">>}, a \in BOOLEAN, b \in BOOLEAN}
    \cup {[sub |-> "led", locate |-> Arg(d), fault |-> NoArg,
           on |-> TRUE, off |-> TRUE] : d \in DeviceArgs}
    \cup {[sub |-> "led", locate |-> NoArg, fault |-> f,
           on |-> TRUE, off |-> TRUE] : f \in {NoArg, Arg(<<"/","d","e","v","/","s","g","9","9">>)}}

\* ------------------------------------------------------------------------
\* Inputs of get_disk_sd_map checked alone
\* ------------------------------------------------------------------------

\* lines as `sg_map` prints them: a generic device, then its block device
\* when it has one; the tool pads with blanks
MapLines ==
    { <<"/","d","e","v","/","s","g","1","0"," ","/","d","e","v","/","s","d","z">>,
      <<"/","d","e","v","/","s","g","1","1">>,
      <<"/","d","e","v","/","s","g","1","0">>,
      <<"/","d","e","v","/","s","g","1","1"," "," ","/","d","e","v","/","s","d","y">>,
      <<" ","/","d","e","v","/","s","g","1","2","\t","/","d","e","v","/","s","d","x"," ">>,
      <<"/","d","e","v","/","s","g","1","2"," ">> }

\* the tool prints one line per generic device: no two lines of an output
\* start with the same name
SgMapOutputs ==
    {out \in UNION {[1..n -> MapLines] : n \in 0..MaxMapLines} :
        \A i, j \in 1..Len(out) :
            SplitWhitespace(out[i])[1] = SplitWhitespace(out[j])[1] => i = j}

\* ------------------------------------------------------------------------
\* get_disk_sd_map, a line at a time
\* ------------------------------------------------------------------------

\* one turn of the loop of disks.rs:209-217
MapReadLine ==
    /\ map_pc = "read"
    /\ map_lineno < Len(env.sg_map_out)
    /\ LET acc == MapInsertLine([panic |-> FALSE, disks |-> disks],
                                env.sg_map_out[map_lineno + 1])
       IN  /\ map_pc' = IF acc.panic THEN "panic" ELSE "read"
           /\ disks' = acc.disks
    /\ map_lineno' = map_lineno + 1
    /\ UNCHANGED <<envVars, fanVars, encVars, tempVars,
                   procVars, promVars>>

\* disks.rs:219-221: the table is returned
MapReturn ==
    /\ map_pc = "read"
    /\ map_lineno = Len(env.sg_map_out)
    /\ map_pc' = "done"
    /\ UNCHANGED <<map_lineno, disks, envVars, fanVars, encVars, tempVars,
                   procVars, promVars>>

\* ------------------------------------------------------------------------
\* Specifications
\* ------------------------------------------------------------------------

FanIdle ==
    /\ fan_pc = "idle"
    /\ fan_enc = 1
    /\ fan_lineno = 0
    /\ encf_u = <<>>
    /\ enclosure_fan = <<>>
    /\ rpm_log = <<>>
    /\ fan_seen = {}

MapIdle ==
    /\ map_pc = "idle"
    /\ map_lineno = 0
    /\ disks = EmptyMap

EncIdle ==
    /\ enc_pc = "idle"
    /\ enc_lineno = 0
    /\ enc_list = <<>>
    /\ inq_log = <<>>
    /\ inq_details = NoInquiry

TempIdle ==
    /\ temp_pc = "idle"
    /\ temp_result = <<>>

PromIdle ==
    /\ prom_pc = "idle"
    /\ fan_rpm = EmptyMap
    /\ number_of_enclosures = 0
    /\ slot_temperature = EmptyMap
    /\ disks_temperature = NoRebuild
    /\ response = NoResponse
    /\ scrapes = 0

ProcIdle ==
    /\ cmd = [sub |-> "none", locate |-> NoArg, fault |-> NoArg,
              on |-> FALSE, off |-> FALSE]
    /\ pc = "idle"
    /\ stdout = <<>>
    /\ fs_writes = <<>>
    /\ rebuilds = 0
    /\ jbod = NoRebuild
    /\ led_op = NoLedOp

\* get_enclosure_fan over every enclosure list, stream and query output
FanInit ==
    /\ env = NoEnv
    /\ fs_files = EmptyMap
    /\ enclosures \in EnclosureLists
    /\ fan_pc = "scan"
    /\ fan_enc = 1
    /\ fan_lineno = 0
    /\ encf_u = <<>>
    /\ enclosure_fan = <<>>
    /\ rpm_log = <<>>
    /\ fan_seen = {}
    /\ MapIdle
    /\ ProcIdle
    /\ EncIdle
    /\ TempIdle
    /\ PromIdle

FanNext ==
    \/ FanSkipLine
    \/ FanNewComponent
    \/ FanNextEnclosure
    \/ FanReturn

SpecFan == FanInit /\ [][FanNext]_vars

\* get_disk_sd_map over every output of the mapping tool
MapInit ==
    /\ \E out \in SgMapOutputs : env = [NoEnv EXCEPT !.sg_map_out = out]
    /\ fs_files = EmptyMap
    /\ enclosures = <<>>
    /\ map_pc = "read"
    /\ map_lineno = 0
    /\ disks = EmptyMap
    /\ FanIdle
    /\ ProcIdle
    /\ EncIdle
    /\ TempIdle
    /\ PromIdle

MapNext ==
    \/ MapReadLine
    \/ MapReturn

SpecMap == MapInit /\ [][MapNext]_vars

\* one run of the jbod command, `list -d` or `led`, in every environment
JbodInit ==
    /\ \/ \E slots \in SlotLists, none_file \in BOOLEAN :
            /\ env = EnvOf(slots)
            /\ fs_files = FilesOf(slots, none_file)
       \/ /\ env \in RootlessEnvs
          /\ fs_files = FilesOf(<<>>, FALSE)
    /\ enclosures = DiskEnclosures
    /\ cmd \in Commands
    /\ pc = "start"
    /\ stdout = <<>>
    /\ fs_writes = <<>>
    /\ rebuilds = 0
    /\ jbod = NoRebuild
    /\ led_op = NoLedOp
    /\ FanIdle
    /\ MapIdle
    /\ EncIdle
    /\ TempIdle
    /\ PromIdle

JbodNext ==
    \/ LedUsageError
    \/ LedLocate
    \/ LedNoLocate
    \/ LedFault
    \/ LedNoFault
    \/ DiskList

SpecJbod == JbodInit /\ [][JbodNext]_vars


\* the whole jbod command from main(), on a machine with one populated slot
\* and any set of the external tools installed
BootTools == {LSSCSI, SG_INQ, SCSI_TEMP, SG_MAP, SG_SES, SGINFO}

BootSlots ==
    << [sg |-> "one", map |-> "real", locate |-> TRUE, fault |-> TRUE] >>

BootCommands ==
    {[sub |-> "list", locate |-> NoArg, fault |-> NoArg,
      on |-> FALSE, off |-> FALSE],
     [sub |-> "led", locate |-> Arg(<<"/","d","e","v","/","s","g","1","0","5">>), fault |-> NoArg,
      on |-> TRUE, off |-> FALSE],
     [sub |-> "led", locate |-> NoArg, fault |-> Arg(<<"/","d","e","v","/","s","d","c","z">>),
      on |-> FALSE, off |-> TRUE],
     [sub |-> "led", locate |-> Arg(<<"/","d","e","v","/","s","g","1","0","5">>),
      fault |-> Arg(<<"/","d","e","v","/","s","g","1","0","5">>), on |-> TRUE, off |-> TRUE]}

BootInit ==
    /\ env = EnvOf(BootSlots)
    /\ \E installed \in SUBSET BootTools :
         fs_files = [f \in (DOMAIN FilesOf(BootSlots, FALSE) \ BootTools)
                              \cup installed |-> FilesOf(BootSlots, FALSE)[f]]
    /\ enclosures = DiskEnclosures
    /\ cmd \in BootCommands
    /\ pc = "boot"
    /\ stdout = <<>>
    /\ fs_writes = <<>>
    /\ rebuilds = 0
    /\ jbod = NoRebuild
    /\ led_op = NoLedOp
    /\ FanIdle
    /\ MapIdle
    /\ EncIdle
    /\ TempIdle
    /\ PromIdle

BootNext ==
    \/ Startup
    \/ LedUsageError
    \/ LedLocate
    \/ LedNoLocate
    \/ LedFault
    \/ LedNoFault
    \/ DiskList

SpecBoot == BootInit /\ [][BootNext]_vars

\* ------------------------------------------------------------------------
\* get_enclosure_details alone, and get_enclosure
\* ------------------------------------------------------------------------

\* the tool's output made of `lines`, each ended by a newline
RECURSIVE JoinLines(_)
JoinLines(lines) ==
    IF lines = <<>> THEN <<>>
    ELSE Head(lines) \o <<"\n">> \o JoinLines(Tail(lines))

\* lines of an inquiry output: the four labelled lines and an unlabelled one
InqLines ==
    { <<" ","V","e","n","d","o","r"," ","i","d","e","n","t","i","f","i","c","a","t","i","o","n",":"," ","H","G","S","T">>,
      <<" ","P","r","o","d","u","c","t"," ","i","d","e","n","t","i","f","i","c","a","t","i","o","n",":"," ","4","U","6","0">>,
      <<" ","P","r","o","d","u","c","t"," ","r","e","v","i","s","i","o","n"," ","l","e","v","e","l",":"," ","0","3","0","0">>,
      <<" ","U","n","i","t"," ","s","e","r","i","a","l"," ","n","u","m","b","e","r",":"," ","U","S","W","1">>,
      <<" "," ","P","Q","u","a","l","=","0"," "," ","D","e","v","i","c","e","_","t","y","p","e","=","1","3">> }

\* every inquiry output of at most MaxInqLines of these lines, in any order
InqOutputs ==
    { JoinLines(lines) :
        lines \in UNION { [1..n -> InqLines] : n \in 0..MaxInqLines } }

\* get_enclosure_details over every inquiry output
InqInit ==
    /\ \E out \in InqOutputs : env = [NoEnv EXCEPT !.sg_inq_out = {out}]
    /\ fs_files = FilesOf(<<>>, FALSE)
    /\ enclosures = <<>>
    /\ enc_pc = "inq"
    /\ enc_lineno = 0
    /\ enc_list = <<>>
    /\ inq_log = <<>>
    /\ inq_details = NoInquiry
    /\ FanIdle
    /\ MapIdle
    /\ TempIdle
    /\ PromIdle
    /\ ProcIdle

InqNext == InqCall

SpecInq == InqInit /\ [][InqNext]_vars

\* lines of `lsscsi -g`: two enclosures with their generic device, a disk,
\* an enclosure without generic device, and the empty line after the last
\* newline
ListLines ==
    { <<"[","1","5",":","0",":","1",":","0","]"," ","e","n","c","l","o","s","u"," ","H","G","S","T"," "," ","4","U","6","0"," ","0","3","0","0"," "," ","-"," "," ","/","d","e","v","/","s","g","9">>,
      <<"[","1","6",":","0",":","1",":","0","]"," ","e","n","c","l","o","s","u"," ","H","G","S","T"," "," ","4","U","6","0"," ","0","3","0","0"," "," ","-"," "," ","/","d","e","v","/","s","g","8">>,
      <<"[","0",":","0",":","0",":","0","]"," "," ","d","i","s","k"," ","A","T","A"," ","S","T","4","0","0","0"," ","S","N","0","4"," ","/","d","e","v","/","s","d","a"," ","/","d","e","v","/","s","g","0">>,
      <<"[","1","7",":","0",":","1",":","0","]"," ","e","n","c","l","o","s","u"," ","H","G","S","T"," "," ","4","U","6","0"," ","0","3","0","0"," "," ","-"," "," ","-">>,
      <<>> }

\* the inquiry outputs an enclosure may give: all four labels, none of them
ListInqOutputs ==
    { JoinLines(<< <<" ","V","e","n","d","o","r"," ","i","d","e","n","t","i","f","i","c","a","t","i","o","n",":"," ","H","G","S","T">>,
                   <<" ","P","r","o","d","u","c","t"," ","i","d","e","n","t","i","f","i","c","a","t","i","o","n",":"," ","4","U","6","0">>,
                   <<" ","P","r","o","d","u","c","t"," ","r","e","v","i","s","i","o","n"," ","l","e","v","e","l",":"," ","0","3","0","0">>,
                   <<" ","U","n","i","t"," ","s","e","r","i","a","l"," ","n","u","m","b","e","r",":"," ","U","S","W","1">> >>),
      JoinLines(<< <<" "," ","P","Q","u","a","l","=","0"," "," ","D","e","v","i","c","e","_","t","y","p","e","=","1","3">> >>) }

\* get_enclosure over every listing of at most MaxListLines lines, with and
\* without the inquiry tool installed
EncInit ==
    /\ \E lines \in UNION { [1..n -> ListLines] : n \in 0..MaxListLines } :
         env = [NoEnv EXCEPT !.lsscsi_out = lines,
                             !.sg_inq_out = ListInqOutputs]
    /\ \E installed \in {BootTools, BootTools \ {SG_INQ}} :
         fs_files = [f \in installed |-> <<>>]
    /\ enclosures = <<>>
    /\ enc_pc = "scan"
    /\ enc_lineno = 0
    /\ enc_list = <<>>
    /\ inq_log = <<>>
    /\ inq_details = NoInquiry
    /\ FanIdle
    /\ MapIdle
    /\ TempIdle
    /\ PromIdle
    /\ ProcIdle

EncNext ==
    \/ EncSkipLine
    \/ EncPush
    \/ EncPanic
    \/ EncReturn

SpecEnc == EncInit /\ [][EncNext]_vars

\* ------------------------------------------------------------------------
\* Attribute collection: `list -d` on one populated slot
\* ------------------------------------------------------------------------

\* the one slot of the machine: Slot00 of the first enclosure, device sg105
AttrSlots ==
    << [sg |-> "one", map |-> "real", locate |-> TRUE, fault |-> TRUE] >>

\* the sysfs node the vendor, model and vpd_pg80 files lie under
AttrDevice == SlotDir(1) \o <<"/","d","e","v","i","c","e">>

\* what an attribute file can be: missing, empty, a value with its trailing
\* newline, a value without it
AttrFileKinds ==
    { [present |-> FALSE, content |-> <<>>],
      [present |-> TRUE,  content |-> <<>>],
      [present |-> TRUE,  content |-> <<"A","T","A","\n">>],
      [present |-> TRUE,  content |-> <<"A","T","A">>] }

\* what the VPD page file can be: missing, or a value
SerialFileKinds ==
    { [present |-> FALSE, content |-> <<>>],
      [present |-> TRUE,  content |-> <<"Z","C","1","2","3","4">>] }

\* outputs of the temperature tool: the usual three lines, nothing (the tool
\* ran and failed), one line, and three lines of which the third is empty
AttrTempOutputs ==
    { <<"/","d","e","v","/","s","g","1","0","5","\n","T","e","m","p","e","r","a","t","u","r","e","\n"," "," ","C","u","r","r","e","n","t"," ","="," ","3","7"," ","C","\n">>,
      <<>>,
      <<"/","d","e","v","/","s","g","1","0","5",":"," ","n","o","t"," ","r","e","a","d","y","\n">>,
      <<"/","d","e","v","/","s","g","1","0","5","\n","T","e","m","p","e","r","a","t","u","r","e","\n","\n">> }

\* outputs of the firmware tool: with one revision line, with two, and
\* without any
AttrSginfoOutputs ==
    { <<"V","e","n","d","o","r",":"," ","A","T","A","\n","R","e","v","i","s","i","o","n"," ","l","e","v","e","l",":"," ","S","N","0","4","\n">>,
      <<"R","e","v","i","s","i","o","n"," ","l","e","v","e","l",":"," ","S","N","0","4","\n","R","e","v","i","s","i","o","n"," ","l","e","v","e","l",":"," ","B","2","\n">>,
      <<"V","e","n","d","o","r",":"," ","A","T","A","\n">> }

\* the files of the machine: those of AttrSlots, the three attribute files
\* as `vendor`, `model` and `serial` say, and the tools of `installed`
AttrFiles(vendor, model, serial, installed) ==
    LET base == FilesOf(AttrSlots, FALSE)
        given == [f \in {AttrDevice \o <<"/","v","e","n","d","o","r">>, AttrDevice \o <<"/","m","o","d","e","l">>,
                         AttrDevice \o <<"/","v","p","d","_","p","g","8","0">>} |->
                    IF f = AttrDevice \o <<"/","v","e","n","d","o","r">> THEN vendor
                    ELSE IF f = AttrDevice \o <<"/","m","o","d","e","l">> THEN model
                    ELSE serial]
        kept == { f \in DOMAIN base :
                    /\ f \in DOMAIN given => given[f].present
                    /\ f \in {SCSI_TEMP, SGINFO} => f \in installed }
    IN  [f \in kept |-> IF f \in DOMAIN given THEN given[f].content
                        ELSE base[f]]

\* `jbod list -d` for every state of the attribute files, every output of
\* the two attribute tools, both tools installed or not, and both builds
AttrInit ==
    /\ \E t \in AttrTempOutputs, s \in AttrSginfoOutputs, o \in BOOLEAN :
         env = [EnvOf(AttrSlots) EXCEPT !.scsi_temp_out = t,
                                        !.sginfo_out = s,
                                        !.overflow_checks = o]
    /\ \E vendor \in AttrFileKinds, model \in AttrFileKinds,
          serial \in SerialFileKinds, installed \in SUBSET {SCSI_TEMP, SGINFO} :
         fs_files = AttrFiles(vendor, model, serial, installed)
    /\ enclosures = DiskEnclosures
    /\ cmd = [sub |-> "list", locate |-> NoArg, fault |-> NoArg,
              on |-> FALSE, off |-> FALSE]
    /\ pc = "start"
    /\ stdout = <<>>
    /\ fs_writes = <<>>
    /\ rebuilds = 0
    /\ jbod = NoRebuild
    /\ led_op = NoLedOp
    /\ FanIdle
    /\ MapIdle
    /\ EncIdle
    /\ TempIdle
    /\ PromIdle

AttrNext == DiskList

SpecAttr == AttrInit /\ [][AttrNext]_vars

\* ------------------------------------------------------------------------
\* get_disk_temperature alone
\* ------------------------------------------------------------------------

\* the characters of a third line: digits and others
TempChars == {"3", "7", "C", " ", "="}

\* every third line of at most MaxTempChars characters
ThirdLines == UNION { [1..n -> TempChars] : n \in 0..MaxTempChars }

\* outputs of the temperature tool: two lines and a third one, ended by a
\* newline or not; and outputs of fewer than three lines
TempOutputs ==
    { <<"/","d","e","v","/","s","g","1","0","5","\n","T","e","m","p","e","r","a","t","u","r","e","\n">> \o line \o tail :
        line \in ThirdLines, tail \in {<<>>, <<"\n">>} }
    \cup { <<>>, <<"/","d","e","v","/","s","g","1","0","5",":"," ","n","o","t"," ","r","e","a","d","y","\n">> }

\* get_disk_temperature over every output, the tool installed or not
TempInit ==
    /\ \E out \in TempOutputs : env = [NoEnv EXCEPT !.scsi_temp_out = out]
    /\ \E installed \in {BootTools, BootTools \ {SCSI_TEMP}} :
         fs_files = [f \in installed |-> <<>>]
    /\ enclosures = <<>>
    /\ temp_pc = "call"
    /\ temp_result = <<>>
    /\ PromIdle
    /\ FanIdle
    /\ MapIdle
    /\ EncIdle
    /\ ProcIdle

TempNext ==
    \/ TempReturn
    \/ TempPanic

SpecTemp == TempInit /\ [][TempNext]_vars

\* ------------------------------------------------------------------------
\* One rebuild over one slot directory of any name and content
\* ------------------------------------------------------------------------

\* the one enclosure line of `lsscsi -g` and what `sg_inq` says of it
TopoListing == <<"[","1","5",":","0",":","1",":","0","]"," ","e","n","c","l","o","s","u"," ","V","E","N","D","O","R","-","X"," ","J","B","O","D","6","0"," ","0","3","0","0"," ","-"," ","/","d","e","v","/","s","g","9">>

TopoInquiry ==
    JoinLines(<< <<" ","V","e","n","d","o","r"," ","i","d","e","n","t","i","f","i","c","a","t","i","o","n",":"," ","V","E","N","D","O","R","-","X">>,
                 <<" ","P","r","o","d","u","c","t"," ","i","d","e","n","t","i","f","i","c","a","t","i","o","n",":"," ","J","B","O","D","6","0">>,
                 <<" ","P","r","o","d","u","c","t"," ","r","e","v","i","s","i","o","n"," ","l","e","v","e","l",":"," ","0","3","0","0">>,
                 <<" ","U","n","i","t"," ","s","e","r","i","a","l"," ","n","u","m","b","e","r",":"," ","S","E","R","1","2","3">> >>)

\* the line of a second enclosure, which holds no slot
TopoOtherListing == <<"[","1","6",":","0",":","1",":","0","]"," ","e","n","c","l","o","s","u"," ","V","E","N","D","O","R","-","X"," ","J","B","O","D","6","0"," ","0","3","0","0"," ","-"," ","/","d","e","v","/","s","g","8">>

\* the listings: the one enclosure alone, and with the other one after or
\* before it
TopoListings ==
    { << TopoListing >>, << TopoListing, TopoOtherListing >>,
      << TopoOtherListing, TopoListing >> }

\* enclosure.rs:287-303: what get_enclosure() returns for the lines `listing`
RECURSIVE EnclosuresOf(_)
EnclosuresOf(listing) ==
    IF listing = <<>> THEN <<>>
    ELSE LET s_output == RetainNonEmpty(Split(Head(listing), " "))
         IN  << MakeEnclosure(s_output, DevicePosition(s_output, 1),
                              get_enclosure_details(TopoInquiry)) >>
             \o EnclosuresOf(Tail(listing))

\* what get_enclosure() returns for the one line
TopoEnclosures == EnclosuresOf(<< TopoListing >>)

\* names the entry of the enclosure's directory can have: five the
\* allow-list takes and four it does not
TopoNames ==
    { <<"S","l","o","t","0","0">>, <<"S","L","O","T"," ","0","1">>, <<"D","i","s","k","0","0","2">>, <<"A","r","r","a","y"," ","D","e","v","i","c","e"," ","0","3">>, <<"1","2">>,
      <<"A","r","r","a","y","D","e","v","i","c","e","0","3">>, <<"p","o","w","e","r">>, <<"e","n","c","l","o","s","u","r","e","_","d","e","v">>, <<"B","a","y"," ","7">> }

\* what device/scsi_generic/ can hold, in the order read_dir gives it
TopoEntries ==
    { <<>>, << <<"s","g","1","0","5">> >>, << <<"s","g","1">> >>,
      << <<"s","g","1","0","5">>, <<"s","g","1">> >>, << <<"s","g","1">>, <<"s","g","1","0","5">> >> }

\* outputs of `sg_map`: both generic devices with their block device, and
\* the second without
TopoSgMaps ==
    { << <<"/","d","e","v","/","s","g","1","0","5"," "," ","/","d","e","v","/","s","d","c","z">>, <<"/","d","e","v","/","s","g","1"," "," ","/","d","e","v","/","s","d","a">> >>,
      << <<"/","d","e","v","/","s","g","1","0","5"," "," ","/","d","e","v","/","s","d","c","z">>, <<"/","d","e","v","/","s","g","1">> >> }

\* outputs of the temperature tool
TopoTempOutputs ==
    { <<"/","d","e","v","/","s","g","1","0","5","\n","T","e","m","p","e","r","a","t","u","r","e","\n"," "," ","C","u","r","r","e","n","t"," ","="," ","3","7"," ","C","\n">>,
      <<"/","d","e","v","/","s","g","1","0","5","\n","T","e","m","p","e","r","a","t","u","r","e","\n"," "," ","C","u","r","r","e","n","t"," ","="," ","4","1"," ","C","\n">> }

\* the directory of the entry `name` under the enclosure's directory
TopoSlotDir(name) ==
    sys_class_enclosure \o TopoEnclosures[1].slot \o <<"/">> \o name

\* the directories of the machine: one per enclosure of `encs`, the entry
\* `name` lying under the first line's enclosure
TopoDirs(name, entries, encs) ==
    (StripSlash(sys_class_enclosure)
        :> [k \in 1..Len(encs) |-> encs[k].slot])
    @@ ((sys_class_enclosure \o TopoEnclosures[1].slot) :> << name >>)
    @@ [d \in {sys_class_enclosure \o encs[k].slot : k \in 1..Len(encs)}
           |-> <<>>]
    @@ (TopoSlotDir(name) :> << <<"d","e","v","i","c","e">> >>)
    @@ ((TopoSlotDir(name) \o <<"/","d","e","v","i","c","e">>) :> << <<"s","c","s","i","_","g","e","n","e","r","i","c">> >>)
    @@ ((TopoSlotDir(name) \o <<"/","d","e","v","i","c","e","/","s","c","s","i","_","g","e","n","e","r","i","c">>) :> entries)

\* the files of the machine: the tools, the device nodes, the attribute
\* files and both control files of the entry
TopoFiles(name) ==
    [f \in BootTools \cup
           { <<"/","d","e","v","/","n","u","l","l">>, <<"/","d","e","v","/","s","g","1","0","5">>, <<"/","d","e","v","/","s","g","1">>, <<"/","d","e","v","/","s","d","c","z">>,
             <<"/","d","e","v","/","s","d","a">>,
             TopoSlotDir(name) \o <<"/","l","o","c","a","t","e">>,
             TopoSlotDir(name) \o <<"/","f","a","u","l","t">>,
             TopoSlotDir(name) \o <<"/","d","e","v","i","c","e","/","v","e","n","d","o","r">>,
             TopoSlotDir(name) \o <<"/","d","e","v","i","c","e","/","m","o","d","e","l">>,
             TopoSlotDir(name) \o <<"/","d","e","v","i","c","e","/","v","p","d","_","p","g","8","0">> } |->
        IF f = TopoSlotDir(name) \o <<"/","d","e","v","i","c","e","/","v","e","n","d","o","r">> THEN <<"A","T","A","\n">>
        ELSE IF f = TopoSlotDir(name) \o <<"/","d","e","v","i","c","e","/","m","o","d","e","l">> THEN <<"S","T","4","0","0","0","\n">>
        ELSE IF f = TopoSlotDir(name) \o <<"/","d","e","v","i","c","e","/","v","p","d","_","p","g","8","0">> THEN <<"Z","C","1","2","3","4">>
        ELSE <<>>]

\* `jbod list -d` for every name and content of the entry
TopoInit ==
    /\ \E name \in TopoNames, listing \in TopoListings :
         /\ \E entries \in TopoEntries, table \in TopoSgMaps,
               t \in TopoTempOutputs :
              env = [dirs            |-> TopoDirs(name, entries,
                                                  EnclosuresOf(listing)),
                     sg_map_out      |-> table,
                     scsi_temp_out   |-> t,
                     sginfo_out      |-> <<"R","e","v","i","s","i","o","n"," ","l","e","v","e","l",":"," ","S","N","0","4","\n">>,
                     overflow_checks |-> FALSE,
                     lsscsi_out      |-> listing,
                     sg_inq_out      |-> { TopoInquiry }]
         /\ fs_files = TopoFiles(name)
         /\ enclosures = EnclosuresOf(listing)
    /\ cmd = [sub |-> "list", locate |-> NoArg, fault |-> NoArg,
              on |-> FALSE, off |-> FALSE]
    /\ pc = "start"
    /\ stdout = <<>>
    /\ fs_writes = <<>>
    /\ rebuilds = 0
    /\ jbod = NoRebuild
    /\ led_op = NoLedOp
    /\ FanIdle
    /\ MapIdle
    /\ EncIdle
    /\ TempIdle
    /\ PromIdle

TopoNext == DiskList

SpecTopo == TopoInit /\ [][TopoNext]_vars

\* ------------------------------------------------------------------------
\* The exporter over a machine that changes between scrapes
\* ------------------------------------------------------------------------

\* the names the entry of the enclosure's directory takes over time: two
\* slots, and one entry that is no slot
PromNames == { <<"S","l","o","t","0","0">>, <<"S","L","O","T"," ","0","1">>, <<"p","o","w","e","r">> }

\* outputs of the temperature tool: two readings, no reading, and a reading
\* no i64 holds
PromTempOutputs ==
    { <<"/","d","e","v","/","s","g","1","0","5","\n","T","e","m","p","e","r","a","t","u","r","e","\n"," "," ","C","u","r","r","e","n","t"," ","="," ","3","7"," ","C","\n">>,
      <<"/","d","e","v","/","s","g","1","0","5","\n","T","e","m","p","e","r","a","t","u","r","e","\n"," "," ","C","u","r","r","e","n","t"," ","="," ","4","1"," ","C","\n">>,
      <<"/","d","e","v","/","s","g","1","0","5","\n","T","e","m","p","e","r","a","t","u","r","e","\n"," "," ","C","u","r","r","e","n","t"," ","="," ","<","n","o","t"," ","a","v","a","i","l","a","b","l","e",">","\n">>,
      <<"/","d","e","v","/","s","g","1","0","5","\n","T","e","m","p","e","r","a","t","u","r","e","\n"," "," ","C","u","r","r","e","n","t"," ","="," ","9","9","9","9","9","9","9","9","9","9","9","9","9","9","9","9","9","9","9","9"," ","C","\n">> }

\* the machine with the entry `name` and the tool output `t`; `present`
\* tells whether /sys/class/enclosure holds the enclosure or nothing
PromEnv(name, t, present) ==
    [dirs            |-> IF present
                         THEN TopoDirs(name, << <<"s","g","1","0","5">> >>, TopoEnclosures)
                         ELSE StripSlash(sys_class_enclosure) :> <<>>,
     sg_map_out      |-> << <<"/","d","e","v","/","s","g","1","0","5"," "," ","/","d","e","v","/","s","d","c","z">>, <<"/","d","e","v","/","s","g","1"," "," ","/","d","e","v","/","s","d","a">> >>,
     scsi_temp_out   |-> t,
     sginfo_out      |-> <<"R","e","v","i","s","i","o","n"," ","l","e","v","e","l",":"," ","S","N","0","4","\n">>,
     overflow_checks |-> FALSE,
     lsscsi_out      |-> << TopoListing >>,
     sg_inq_out      |-> { TopoInquiry }]

\* the files of the machine; without `sg_map` the rebuild cannot spawn it
PromFiles(name, tooled) ==
    IF tooled THEN TopoFiles(name)
    ELSE [f \in DOMAIN TopoFiles(name) \ {SG_MAP} |-> TopoFiles(name)[f]]

\* the machines a scrape can find: every entry name with every reading,
\* one with an empty enclosure class and one without `sg_map`
PromMachines ==
    { [name |-> name, t |-> t, present |-> TRUE, tooled |-> TRUE] :
          name \in PromNames, t \in PromTempOutputs }
    \cup { [name |-> <<"S","l","o","t","0","0">>, t |-> t, present |-> FALSE, tooled |-> TRUE] :
              t \in { <<"/","d","e","v","/","s","g","1","0","5","\n","T","e","m","p","e","r","a","t","u","r","e","\n"," "," ","C","u","r","r","e","n","t"," ","="," ","3","7"," ","C","\n">> } }
    \cup { [name |-> <<"S","l","o","t","0","0">>, t |-> t, present |-> TRUE, tooled |-> FALSE] :
              t \in { <<"/","d","e","v","/","s","g","1","0","5","\n","T","e","m","p","e","r","a","t","u","r","e","\n"," "," ","C","u","r","r","e","n","t"," ","="," ","3","7"," ","C","\n">> } }

\* The machine between two scrapes: the entry is renamed, the disk answers
\* another temperature, a tool or the enclosure goes away.
HardwareChanges ==
    /\ prom_pc = "serve"
    /\ \E m \in PromMachines :
         /\ env' = PromEnv(m.name, m.t, m.present)
         /\ fs_files' = PromFiles(m.name, m.tooled)
    /\ UNCHANGED <<enclosures, fanVars, mapVars, encVars, tempVars, promVars,
                   procVars>>

PromInit ==
    /\ env = PromEnv(<<"S","l","o","t","0","0">>, <<"/","d","e","v","/","s","g","1","0","5","\n","T","e","m","p","e","r","a","t","u","r","e","\n"," "," ","C","u","r","r","e","n","t"," ","="," ","3","7"," ","C","\n">>,
                     TRUE)
    /\ fs_files = PromFiles(<<"S","l","o","t","0","0">>, TRUE)
    /\ enclosures = TopoEnclosures
    /\ prom_pc = "serve"
    /\ fan_rpm = EmptyMap
    /\ number_of_enclosures = 0
    /\ slot_temperature = EmptyMap
    /\ disks_temperature = NoRebuild
    /\ response = NoResponse
    /\ scrapes = 0
    /\ FanIdle
    /\ MapIdle
    /\ EncIdle
    /\ TempIdle
    /\ ProcIdle

PromNext == HardwareChanges \/ MetricsHandler

SpecProm == PromInit /\ [][PromNext]_vars

\* ------------------------------------------------------------------------
\* Two engine operations at once: an enclosure discovery and a rebuild
\* ------------------------------------------------------------------------

\* listings of the two enclosures of DiskEnclosures, a disk line and the
\* empty last line among them
ConcListings ==
    { << <<"[","1","5",":","0",":","1",":","0","]"," ","e","n","c","l","o","s","u"," ","V","E","N","D","O","R","-","X"," ","J","B","O","D","6","0"," ","0","3","0","0"," ","-"," ","/","d","e","v","/","s","g","9">>,
         <<"[","1","6",":","0",":","1",":","0","]"," ","e","n","c","l","o","s","u"," ","V","E","N","D","O","R","-","X"," ","J","B","O","D","6","0"," ","0","3","0","0"," ","-"," ","/","d","e","v","/","s","g","8">> >>,
      << <<"[","1","5",":","0",":","1",":","0","]"," ","e","n","c","l","o","s","u"," ","V","E","N","D","O","R","-","X"," ","J","B","O","D","6","0"," ","0","3","0","0"," ","-"," ","/","d","e","v","/","s","g","9">>,
         <<"[","0",":","0",":","0",":","0","]"," "," ","d","i","s","k"," ","A","T","A"," ","S","T","4","0","0","0"," ","S","N","0","4"," ","/","d","e","v","/","s","d","a"," ","/","d","e","v","/","s","g","0">>,
         <<"[","1","6",":","0",":","1",":","0","]"," ","e","n","c","l","o","s","u"," ","V","E","N","D","O","R","-","X"," ","J","B","O","D","6","0"," ","0","3","0","0"," ","-"," ","/","d","e","v","/","s","g","8">> >>,
      << <<"[","0",":","0",":","0",":","0","]"," "," ","d","i","s","k"," ","A","T","A"," ","S","T","4","0","0","0"," ","S","N","0","4"," ","/","d","e","v","/","s","d","a"," ","/","d","e","v","/","s","g","0">>,
         <<"[","1","5",":","0",":","1",":","0","]"," ","e","n","c","l","o","s","u"," ","V","E","N","D","O","R","-","X"," ","J","B","O","D","6","0"," ","0","3","0","0"," ","-"," ","/","d","e","v","/","s","g","9">>,
         <<"[","1","6",":","0",":","1",":","0","]"," ","e","n","c","l","o","s","u"," ","V","E","N","D","O","R","-","X"," ","J","B","O","D","6","0"," ","0","3","0","0"," ","-"," ","/","d","e","v","/","s","g","8">>,
         <<>> >> }

\* the slot directories of the machine: none, one slot, two slots of which
\* the second has no line in the table, two mapped slots
ConcSlotLists ==
    { <<>>,
      << [sg |-> "one", map |-> "real", locate |-> TRUE, fault |-> TRUE] >>,
      << [sg |-> "one", map |-> "real", locate |-> TRUE, fault |-> TRUE],
         [sg |-> "one", map |-> "absent", locate |-> TRUE, fault |-> TRUE] >>,
      << [sg |-> "one", map |-> "real", locate |-> TRUE, fault |-> TRUE],
         [sg |-> "one", map |-> "none", locate |-> TRUE, fault |-> FALSE] >> }

\* a discovery (get_enclosure), the table read of a rebuild
\* (get_disk_sd_map) and a whole rebuild (`list -d`) start together on one
\* machine, which stays as it is
ConcInit ==
    /\ \E slots \in ConcSlotLists, listing \in ConcListings :
         /\ env = [EnvOf(slots) EXCEPT !.lsscsi_out = listing,
                                       !.sg_inq_out = { TopoInquiry }]
         /\ fs_files = FilesOf(slots, FALSE)
         /\ enclosures = EnclosuresOf(SelectSeq(listing, EnclosureClass))
    /\ cmd = [sub |-> "list", locate |-> NoArg, fault |-> NoArg,
              on |-> FALSE, off |-> FALSE]
    /\ pc = "start"
    /\ stdout = <<>>
    /\ fs_writes = <<>>
    /\ rebuilds = 0
    /\ jbod = NoRebuild
    /\ led_op = NoLedOp
    /\ enc_pc = "scan"
    /\ enc_lineno = 0
    /\ enc_list = <<>>
    /\ inq_log = <<>>
    /\ inq_details = NoInquiry
    /\ map_pc = "read"
    /\ map_lineno = 0
    /\ disks = EmptyMap
    /\ FanIdle
    /\ TempIdle
    /\ PromIdle

ConcNext ==
    \/ EncSkipLine
    \/ EncPush
    \/ EncReturn
    \/ MapReadLine
    \/ MapReturn
    \/ DiskList

SpecConc == ConcInit /\ [][ConcNext]_vars
\* ------------------------------------------------------------------------
\* Claims about fan enumeration (checked under SpecFan)
\* ------------------------------------------------------------------------

\* the (index, serial, description) of every EnclosureFan of a vector
FanKeys(fans) ==
    {[index       |-> fans[k].index,
      serial      |-> fans[k].serial,
      description |-> fans[k].description] : k \in 1..Len(fans)}

\* C1: get_enclosure_fan never holds two EnclosureFan records with the same
\* (index, serial) pair, and the vector it returns has exactly one record for
\* each distinct (index, serial) pair among the accepted lines, whatever the
\* slot labels are, carrying the description of the first line that had the
\* pair.
C1_OneFanPerIndexSerial ==
    /\ \A j, k \in 1..Len(enclosure_fan) :
         (/\ enclosure_fan[j].index = enclosure_fan[k].index
          /\ enclosure_fan[j].serial = enclosure_fan[k].serial) => j = k
    /\ fan_pc = "done" => FanKeys(enclosure_fan) = fan_seen

\* C1's case: the scan has returned two fans with the same slot label and the
\* same index under different serials, after a later line with the same pair
\* and another description ("Fan B [1]") was dropped.
C1_Witness ==
    /\ fan_pc = "done"
    /\ encf_u = <<"F","a","n"," ","B"," ","[","1","]">>
    /\ \E j, k \in 1..Len(enclosure_fan) :
         /\ enclosure_fan[j].slot = enclosure_fan[k].slot
         /\ enclosure_fan[j].index = <<"1">>
         /\ enclosure_fan[k].index = <<"1">>
         /\ enclosure_fan[j].serial # enclosure_fan[k].serial
         /\ enclosure_fan[j].description = <<"F","a","n"," ","A">>
         /\ enclosure_fan[k].description = <<"F","a","n"," ","A">>

\* the lines of a query output that contain "speed"
SpeedLines(out) ==
    LET lines == Split(out, "\n")
    IN  {lines[k] : k \in {i \in 1..Len(lines) : Contains(lines[i], <<"s","p","e","e","d">>)}}

\* the query output gives no RPM: no line contains "speed", or a speed line
\* has no digit in its second comma-separated field
RpmUnreadable(out) ==
    \/ SpeedLines(out) = {}
    \/ \E l \in SpeedLines(out) :
         LET f == Split(l, ",")
         IN  Len(f) < 2 \/ \A i \in 1..Len(f[2]) : ~IsDigit(f[2][i])

\* C2 (as claimed): a component whose RPM query output is unreadable is never
\* emitted with speed 0, and its failure does not abort the scan of the other
\* components.
C2_NoSilentZeroSpeed ==
    /\ \A k \in 1..Len(enclosure_fan) :
         RpmUnreadable(rpm_log[k].out) => enclosure_fan[k].speed # 0
    /\ ~(fan_pc = "panic" /\ RpmUnreadable(rpm_log[Len(rpm_log)].out))

\* the description of a line as the specification words it: the trimmed text
\* before the first '['
SpecDescription(line) == Trim(Take(line, Find(line, "[") - 1))

\* the index: the text between the first '[' and the next ']' (the rest of
\* the line when no ']' follows)
SpecIndex(line) ==
    LET rest == Drop(line, Find(line, "[") + 1)
        k == Find(rest, "]")
    IN  IF k = 0 THEN rest ELSE Take(rest, k - 1)

SpecCandidate(line) ==
    /\ Find(line, "[") # 0
    /\ SpecDescription(line) # <<>>
    /\ SpecIndex(line) # <<>>

\* C3: a step that reads a line without a '[', or with an empty description
\* or an empty index, pushes no EnclosureFan, issues no RPM query and does not
\* fail.
C3_NonCandidateDiscarded ==
    [][(fan_lineno' = fan_lineno + 1 /\ ~SpecCandidate(encf_u'))
         => /\ enclosure_fan' = enclosure_fan
            /\ rpm_log' = rpm_log
            /\ fan_pc' = "scan"]_vars

\* C3's case: a line with no '[' has just been read and discarded after a
\* component had been accepted.
C3_Witness ==
    /\ fan_pc = "scan"
    /\ fan_lineno > 0
    /\ encf_u = <<"C","o","o","l","i","n","g">>
    /\ Len(enclosure_fan) = 1


\* ------------------------------------------------------------------------
\* Claim about the mapping table (checked under SpecMap)
\* ------------------------------------------------------------------------

\* C4: get_disk_sd_map binds the first whitespace-separated token of every
\* line it has read to the line's second token, or to "NONE" when the line
\* has a single token; the table it returns has no other key, and the lines
\* "/dev/sg10 /dev/sdz" and "/dev/sg11" give /dev/sg10 -> /dev/sdz and
\* /dev/sg11 -> NONE.
C4_TableFromTokens ==
    /\ map_pc \in {"read", "done"} =>
         \A i \in 1..map_lineno :
            LET tokens == SplitWhitespace(env.sg_map_out[i])
            IN  /\ tokens[1] \in DOMAIN disks
                /\ disks[tokens[1]] =
                     IF Len(tokens) >= 2 THEN tokens[2] ELSE NONE
    /\ map_pc = "done" =>
         DOMAIN disks = {SplitWhitespace(env.sg_map_out[i])[1] :
                           i \in 1..Len(env.sg_map_out)}
    /\ (map_pc = "done"
          /\ env.sg_map_out = << <<"/","d","e","v","/","s","g","1","0"," ","/","d","e","v","/","s","d","z">>, <<"/","d","e","v","/","s","g","1","1">> >>) =>
         disks = (<<"/","d","e","v","/","s","g","1","0">> :> <<"/","d","e","v","/","s","d","z">>) @@ (<<"/","d","e","v","/","s","g","1","1">> :> <<"N","O","N","E">>)

\* C4's case: the table for the two lines of the example has been returned.
C4_Witness ==
    /\ map_pc = "done"
    /\ env.sg_map_out = << <<"/","d","e","v","/","s","g","1","0"," ","/","d","e","v","/","s","d","z">>, <<"/","d","e","v","/","s","g","1","1">> >>
    /\ DOMAIN disks = {<<"/","d","e","v","/","s","g","1","0">>, <<"/","d","e","v","/","s","g","1","1">>}

\* ------------------------------------------------------------------------
\* Claims about the topology rebuild and the LED operations (checked under
\* SpecJbod)
\* ------------------------------------------------------------------------

EndsWith(s, suffix) ==
    /\ Len(s) >= Len(suffix)
    /\ SubSeq(s, Len(s) - Len(suffix) + 1, Len(s)) = suffix

\* the <slot>/device directories of the sysfs tree
SlotDeviceDirs == {d \in DOMAIN env.dirs : EndsWith(d, <<"/","d","e","v","i","c","e">>)}

\* the generic device paths the sysfs tree resolves slots to: one for every
\* entry of a <slot>/device/scsi_generic directory
ResolvedPaths ==
    UNION {{<<"/","d","e","v","/">> \o env.dirs[d][k] : k \in 1..Len(env.dirs[d])} :
             d \in {x \in DOMAIN env.dirs :
                      EndsWith(x, <<"/","d","e","v","i","c","e","/","s","c","s","i","_","g","e","n","e","r","i","c">>)}}

\* the mapping table of the environment
SgTable == get_disk_sd_map(env.sg_map_out).disks

\* C5: after a rebuild, if a slot resolves to a generic device path that the
\* mapping table does not hold, the rebuild has failed and has left no disk
\* list; and every Disk of a rebuilt list has the device_map the table holds
\* for its own device_path.
C5_CorrelationFaultAborts ==
    rebuilds > 0 =>
      /\ (\E p \in ResolvedPaths : p \notin DOMAIN SgTable) =>
            /\ jbod.status = "panic"
            /\ jbod.disk = <<>>
            /\ pc = "panic"
      /\ \A k \in 1..Len(jbod.disk) :
            /\ jbod.disk[k].device_path \in DOMAIN SgTable
            /\ jbod.disk[k].device_map = SgTable[jbod.disk[k].device_path]

\* C5's case: a rebuild has failed in a tree where one slot resolves to a
\* path the table holds and another to a path it does not hold.
C5_Witness ==
    /\ rebuilds > 0
    /\ jbod.status = "panic"
    /\ \E p \in ResolvedPaths : p \notin DOMAIN SgTable
    /\ \E p \in ResolvedPaths : p \in DOMAIN SgTable

\* the sysfs tree has the directory of every enclosure `lsscsi` lists
EnclosureDirsListed ==
    \A k \in 1..Len(enclosures) :
       sys_class_enclosure \o enclosures[k].slot \in DOMAIN env.dirs

\* C6: every Disk of a rebuilt list has a non-empty device_path; the list
\* holds one Disk for each slot resolved to a generic device and none for a
\* slot whose device/scsi_generic/ is absent or empty; and such slots do not
\* make the rebuild fail where the tree has the enclosures' directories.
C6_OnlyResolvedSlotsGiveDisks ==
    rebuilds > 0 =>
      /\ jbod.status = "ok" =>
            /\ \A k \in 1..Len(jbod.disk) : jbod.disk[k].device_path # <<>>
            /\ {jbod.disk[k].device_path : k \in 1..Len(jbod.disk)}
                 = ResolvedPaths
            /\ Len(jbod.disk) = Cardinality(ResolvedPaths)
      /\ (ResolvedPaths \subseteq DOMAIN SgTable /\ EnclosureDirsListed) =>
            jbod.status = "ok"

\* C6's case: a rebuild over two slot directories, one of them without a
\* generic device, has returned a single Disk.
C6_Witness ==
    /\ rebuilds > 0
    /\ jbod.status = "ok"
    /\ Cardinality(SlotDeviceDirs) = 2
    /\ Len(jbod.disk) = 1
    /\ Cardinality(ResolvedPaths) = 1

\* the led path a set_disk_led_* call of the given kind reads from a Disk
LedPathOf(kind, d) ==
    IF kind = "locate" THEN d.led_locate_path ELSE d.led_fault_path

\* C7 (as claimed): when the Disk matched by a set_disk_led_* call carries
\* the sentinel as its led path, the call writes to no file and prints that
\* the device does not expose the indicator.
C7_NoWriteWithoutControlFile ==
    (/\ led_op.called
     /\ led_op.found_disk # <<>>
     /\ LedPathOf(led_op.kind, led_op.found_disk[1]) = NONE) =>
        /\ led_op.writes = <<>>
        /\ \A k \in 1..Len(fs_writes) : fs_writes[k].path # NONE
        /\ led_op.prints # <<>>
        /\ led_op.prints # <<"Disk slot">>

\* C8: a set_disk_led_* call whose device identifier does not exist as a
\* path ends the process with status 1, without a rebuild and without a
\* write.
C8_MissingDeviceExits ==
    [][(led_op' # led_op /\ ~path_exists(led_op'.disk)) =>
          /\ pc' = "exit1"
          /\ rebuilds' = rebuilds
          /\ jbod' = jbod
          /\ fs_writes' = fs_writes
          /\ fs_files' = fs_files]_vars

\* C8's case: an LED operation on /dev/sg99, which does not exist, has ended
\* the process.
C8_Witness ==
    /\ led_op.called
    /\ led_op.disk = <<"/","d","e","v","/","s","g","9","9">>
    /\ ~path_exists(led_op.disk)
    /\ pc = "exit1"
    /\ rebuilds = 0

\* C9 (as claimed): a set_disk_led_* call whose identifier exists as a path
\* and names no Disk of the rebuilt topology writes nothing, does not crash
\* and reports that nothing was found.
C9_NoMatchReported ==
    (/\ led_op.called
     /\ path_exists(led_op.disk)
     /\ led_op.jbod.status = "ok"
     /\ \A k \in 1..Len(led_op.jbod.disk) :
           /\ led_op.jbod.disk[k].device_path # led_op.disk
           /\ led_op.jbod.disk[k].device_map # led_op.disk) =>
        /\ led_op.writes = <<>>
        /\ led_op.status = "ok"
        /\ led_op.prints # <<>>

\* the slot directory whose device/scsi_generic/ holds a Disk's generic
\* device
SlotDirOf(d) ==
    LET dirs == {x \in DOMAIN env.dirs :
                   /\ EndsWith(x, <<"/","d","e","v","i","c","e","/","s","c","s","i","_","g","e","n","e","r","i","c">>)
                   /\ \E k \in 1..Len(env.dirs[x]) :
                         <<"/","d","e","v","/">> \o env.dirs[x][k] = d.device_path}
        x == CHOOSE x \in dirs : TRUE
    IN  Take(x, Len(x) - Len(<<"/","d","e","v","i","c","e","/","s","c","s","i","_","g","e","n","e","r","i","c">>))

\* the control file of a Disk's slot for an indicator kind
SlotControlFile(d, kind) ==
    SlotDirOf(d) \o <<"/">> \o (IF kind = "locate" THEN <<"l","o","c","a","t","e">> ELSE <<"f","a","u","l","t">>)

\* C10: for a Disk D of the rebuilt topology with a real device_map, a
\* set_disk_led_* call given one of D's two names writes what the same call
\* given the other name writes, and what it writes is the value, to D's own
\* control file for the indicator.
C10_EitherNameSameWrite ==
    [][led_op' # led_op =>
         \A k \in 1..Len(led_op'.jbod.disk) :
            LET D == led_op'.jbod.disk[k]
                other == IF led_op'.disk = D.device_path
                         THEN D.device_map ELSE D.device_path
            IN  (/\ D.device_map # NONE
                 /\ led_op'.disk \in {D.device_path, D.device_map}
                 /\ path_exists(D.device_path)
                 /\ path_exists(D.device_map)) =>
                   /\ SetDiskLed(led_op'.kind, other, led_op'.option).writes
                        = led_op'.writes
                   /\ \A j \in 1..Len(led_op'.writes) :
                        /\ led_op'.writes[j].data = led_op'.option
                        /\ led_op'.writes[j].path = LedPathOf(led_op'.kind, D)
                        /\ led_op'.writes[j].path # NONE =>
                             led_op'.writes[j].path
                               = SlotControlFile(D, led_op'.kind)]_vars

\* C10's case: the locate LED of the first slot's disk has been switched on
\* through the disk's block device name.
C10_Witness ==
    /\ led_op.called
    /\ led_op.kind = "locate"
    /\ led_op.disk = SdNames[1]
    /\ led_op.writes = <<[path |-> SlotDir(1) \o <<"/","l","o","c","a","t","e">>, data |-> <<"1">>]>>

\* the control files of the sysfs tree
ControlFiles ==
    {f \in DOMAIN fs_files : EndsWith(f, <<"/","l","o","c","a","t","e">>) \/ EndsWith(f, <<"/","f","a","u","l","t">>)}

\* the indicator a set_disk_led_* call made from jbod_led_switch is for:
\* the locate block runs first, the fault block second
StepKind == IF pc = "start" THEN "locate" ELSE "fault"

\* C11: a set_disk_led_locate call that finds its disk's locate control file
\* leaves it holding "1" for --on and "0" for --off, and a locate call
\* changes no other control file; a set_disk_led_fault call does the same
\* with the disk's fault control file.
C11_OnlyOwnControlFileChanges ==
    [][led_op' # led_op =>
         LET own == IF led_op'.found_disk = <<>> THEN <<>>
                    ELSE SlotControlFile(led_op'.found_disk[1], StepKind)
         IN  /\ \A f \in ControlFiles :
                  f # own => f \in DOMAIN fs_files' /\ fs_files'[f] = fs_files[f]
             /\ (led_op'.status = "ok" /\ own \in DOMAIN fs_files) =>
                  /\ fs_files'[own] = IF cmd.on THEN <<"1">> ELSE <<"0">>
                  /\ led_op'.writes
                       = <<[path |-> own,
                            data |-> IF cmd.on THEN <<"1">> ELSE <<"0">>]>>]_vars

\* C11's case: the locate LED of the first slot's disk has been switched on
\* while its fault file and both files of a second disk are as they were.
C11_Witness ==
    /\ led_op.called
    /\ led_op.kind = "locate"
    /\ pc = "fault"
    /\ SlotDir(1) \o <<"/","l","o","c","a","t","e">> \in DOMAIN fs_files
    /\ fs_files[SlotDir(1) \o <<"/","l","o","c","a","t","e">>] = <<"1">>
    /\ SlotDir(1) \o <<"/","f","a","u","l","t">> \in DOMAIN fs_files
    /\ fs_files[SlotDir(1) \o <<"/","f","a","u","l","t">>] = <<"0">>
    /\ SlotDir(2) \o <<"/","l","o","c","a","t","e">> \in DOMAIN fs_files
    /\ fs_files[SlotDir(2) \o <<"/","l","o","c","a","t","e">>] = <<"0">>
    /\ SlotDir(2) \o <<"/","f","a","u","l","t">> \in DOMAIN fs_files
    /\ fs_files[SlotDir(2) \o <<"/","f","a","u","l","t">>] = <<"0">>

\* C12: every step of a `led` command given both --on and --off ends the
\* process with status 1 after the usage message, with no rebuild, no
\* set_disk_led_* call and no write, whatever devices were named.
C12_OnAndOffIsUsageError ==
    [][(cmd.sub = "led" /\ cmd.on /\ cmd.off) =>
          /\ pc = "start"
          /\ pc' = "exit1"
          /\ stdout' = Append(stdout, "Not christmas yet")
          /\ rebuilds' = rebuilds
          /\ jbod' = jbod
          /\ led_op' = led_op
          /\ fs_writes' = fs_writes
          /\ fs_files' = fs_files]_vars

\* C12's case: a command with --on, --off and an existing locate device has
\* ended at exit(1).
C12_Witness ==
    /\ cmd.sub = "led"
    /\ cmd.on /\ cmd.off
    /\ cmd.locate.present
    /\ path_exists(cmd.locate.value)
    /\ pc = "exit1"
    /\ rebuilds = 0
    /\ fs_writes = <<>>

\* the name of a Disk's slot directory
SlotDirName(d) ==
    Drop(SlotDirOf(d), Len(sys_class_enclosure \o d.enclosure \o <<"/">>) + 1)

\* the led path as the claim words it, built from the Disk's slot field
LedPathFromSlotField(d, kind) ==
    sys_class_enclosure \o d.enclosure \o <<"/">> \o d.slot \o <<"/">>
        \o (IF kind = "locate" THEN <<"l","o","c","a","t","e">> ELSE <<"f","a","u","l","t">>)

\* the led path a rebuild must give a Disk for an indicator kind: the
\* control file of its slot directory when it exists, else the sentinel
ExpectedLedPath(d, kind) ==
    IF SlotControlFile(d, kind) \in DOMAIN fs_files
    THEN SlotControlFile(d, kind) ELSE NONE

\* C13 (as claimed): each led path of a rebuilt Disk is "NONE" or
\* "/sys/class/enclosure/" + enclosure + "/" + slot + "/locate" (or
\* "/fault"), with the Disk's own slot field, and it is that path exactly
\* when the file exists.
C13_LedPathFromSlotField ==
    \A k \in 1..Len(jbod.disk) :
       \A kind \in {"locate", "fault"} :
          LedPathOf(kind, jbod.disk[k]) =
             IF LedPathFromSlotField(jbod.disk[k], kind) \in DOMAIN fs_files
             THEN LedPathFromSlotField(jbod.disk[k], kind) ELSE NONE

\* C13 (amended): each led path of a rebuilt Disk is "NONE" or
\* "/sys/class/enclosure/" + enclosure + "/" + the name of the Disk's slot
\* directory + "/locate" (or "/fault"), and it is that path exactly when the
\* file exists; the Disk's slot field is that name up to its first comma.
C13_LedPathFromSlotDirectory ==
    \A k \in 1..Len(jbod.disk) :
       /\ \A kind \in {"locate", "fault"} :
             LedPathOf(kind, jbod.disk[k]) = ExpectedLedPath(jbod.disk[k], kind)
       /\ SlotDirOf(jbod.disk[k])
            = sys_class_enclosure \o jbod.disk[k].enclosure \o <<"/">>
                \o SlotDirName(jbod.disk[k])
       /\ jbod.disk[k].slot = Split(SlotDirName(jbod.disk[k]), ",")[1]

\* C13's case: a rebuild has returned a Disk with a locate file and no
\* fault file, in a slot directory whose name has a comma.
C13_Witness ==
    /\ rebuilds > 0
    /\ \E k \in 1..Len(jbod.disk) :
          /\ SlotDirName(jbod.disk[k]) = <<"S","l","o","t"," ","0","1",",","Z","1">>
          /\ jbod.disk[k].slot = <<"S","l","o","t"," ","0","1">>
          /\ jbod.disk[k].led_locate_path = SlotDir(2) \o <<"/","l","o","c","a","t","e">>
          /\ jbod.disk[k].led_fault_path = NONE

\* the sysfs enclosure root does not exist
RootAbsent == StripSlash(sys_class_enclosure) \notin DOMAIN env.dirs

\* the sysfs enclosure root exists and has no entry
RootEmpty ==
    /\ ~RootAbsent
    /\ env.dirs[StripSlash(sys_class_enclosure)] = <<>>

\* C14 (as claimed): a rebuild on a machine whose sysfs enclosure root is
\* absent or empty ends the process at exit(1) after the advice on
\* alternative tooling, the absent root like the empty one.
C14_UnsupportedEnvironmentExits ==
    (rebuilds > 0 /\ (RootAbsent \/ RootEmpty)) =>
        /\ jbod.status = "exit"
        /\ pc = "exit1"
        /\ stdout # <<>>
        /\ stdout[Len(stdout)] = "jbod-rs not supported in this machine"

\* ------------------------------------------------------------------------
\* Claim about the startup check (checked under SpecBoot)
\* ------------------------------------------------------------------------

\* the package verify_binary_needed names for a tool it tests
PackageOf(tool) ==
    IF tool = LSSCSI THEN "lsscsi"
    ELSE IF tool = SCSI_TEMP THEN "sg3-utils: scsi_temperature"
    ELSE "sg3-utils"

\* C15 (as claimed): when one of the six external tools is not on the
\* filesystem the command ends at exit(1) at startup, after a line for every
\* missing tool, before any subcommand step: no rebuild starts and none
\* fails on a missing tool.
C15_MissingToolExitsAtStartup ==
    (\E tool \in BootTools : ~ToolRuns(tool)) =>
        /\ pc \in {"boot", "exit1"}
        /\ rebuilds = 0
        /\ pc = "exit1" =>
             \A tool \in BootTools :
                ~ToolRuns(tool) =>
                   \E k \in 1..Len(stdout) : stdout[k] = PackageOf(tool)

\* ------------------------------------------------------------------------
\* Enclosure inquiry and enumeration
\* ------------------------------------------------------------------------

\* the label of each Enclosure field in the inquiry output
FieldLabel ==
    [vendor |-> <<"V","e","n","d","o","r"," ","i","d","e","n","t","i","f","i","c","a","t","i","o","n",":">>,
     ident  |-> <<"P","r","o","d","u","c","t"," ","i","d","e","n","t","i","f","i","c","a","t","i","o","n",":">>,
     rev    |-> <<"P","r","o","d","u","c","t"," ","r","e","v","i","s","i","o","n"," ","l","e","v","e","l",":">>,
     serial |-> <<"U","n","i","t"," ","s","e","r","i","a","l"," ","n","u","m","b","e","r",":">>]

\* the lines of `sginq_output` that carry `label`
LinesCarrying(sginq_output, label) ==
    { i \in DOMAIN Split(sginq_output, "\n") :
        Contains(Split(sginq_output, "\n")[i], label) }

\* field `f` of `details` is "NONE" when no line of `sginq_output` carries
\* the field's label, and else the trimmed remainder of a line carrying it
FieldFollowsLabel(details, sginq_output, f) ==
    IF LinesCarrying(sginq_output, FieldLabel[f]) = {}
    THEN details[f] = NONE
    ELSE \E i \in LinesCarrying(sginq_output, FieldLabel[f]) :
           details[f] = Trim(Remove(Split(sginq_output, "\n")[i],
                                    FieldLabel[f]))

\* C16 (as claimed): for every inquiry output, each of vendor, model, revision and serial
\* is "NONE" exactly when no line carries the field's own label, and is
\* otherwise the trimmed remainder of the line carrying it; a line labelled
\* for one field never sets another field.
C16_FieldsFollowOwnLabel ==
    enc_pc = "inq_done" =>
        \A sginq_output \in env.sg_inq_out :
          \A f \in DOMAIN FieldLabel :
            FieldFollowsLabel(inq_details, sginq_output, f)

\* the enclosure-class lines among the first n lines of the listing
RECURSIVE EnclosureLines(_)
EnclosureLines(n) ==
    IF n = 0 THEN <<>>
    ELSE EnclosureLines(n - 1)
         \o (IF EnclosureClass(env.lsscsi_out[n])
             THEN <<env.lsscsi_out[n]>> ELSE <<>>)

\* C17 (as claimed): for every listing, with the inquiry tool installed,
\* get_enclosure never aborts, and on return holds one Enclosure per
\* enclosure-class line in listing order, the line's first token giving its
\* slot; a line without device token only degrades its own enclosure.
C17_EnumerationNeverAborts ==
    ToolRuns(SG_INQ) =>
        /\ enc_pc # "panic"
        /\ enc_pc = "done" =>
             \E lines \in {EnclosureLines(Len(env.lsscsi_out))} :
                /\ Len(enc_list) = Len(lines)
                /\ \A k \in 1..Len(lines) :
                     enc_list[k].slot =
                        RemoveBrackets(RetainNonEmpty(Split(lines[k], " "))[1])

\* ------------------------------------------------------------------------
\* Claims about the disk attributes (checked under SpecAttr)
\* ------------------------------------------------------------------------

\* the sysfs node of the Disk `d`
DiskNode(d) == SlotDirOf(d) \o <<"/","d","e","v","i","c","e">>

\* `content` with only its trailing newline removed
WithoutTrailingNewline(content) ==
    IF content # <<>> /\ content[Len(content)] = "\n"
    THEN Take(content, Len(content) - 1)
    ELSE content

\* the value claimed for an attribute read from `file`
ClaimedAttribute(file) ==
    IF file \in DOMAIN fs_files THEN WithoutTrailingNewline(fs_files[file])
    ELSE NotAvailable

\* the two attribute tools run and the temperature tool prints three lines
AttrToolsFine ==
    /\ ToolRuns(SCSI_TEMP)
    /\ ToolRuns(SGINFO)
    /\ Len(Split(env.scsi_temp_out, "\n")) >= 3

\* C18 (as claimed): a rebuild whose attribute tools work does not abort,
\* and every emitted Disk has as vendor (resp. model) "N/A" when the sysfs
\* file is missing and else the file's content with only its trailing
\* newline removed, the empty content included.
C18_VendorModelFromFile ==
    /\ (rebuilds > 0 /\ AttrToolsFine) => jbod.status = "ok"
    /\ \A k \in 1..Len(jbod.disk) :
         /\ jbod.disk[k].vendor
               = ClaimedAttribute(DiskNode(jbod.disk[k]) \o <<"/","v","e","n","d","o","r">>)
         /\ jbod.disk[k].model
               = ClaimedAttribute(DiskNode(jbod.disk[k]) \o <<"/","m","o","d","e","l">>)

\* neither the vendor nor the model file is an empty file
AttrFilesNotEmpty ==
    \A f \in {AttrDevice \o <<"/","v","e","n","d","o","r">>, AttrDevice \o <<"/","m","o","d","e","l">>} :
       f \in DOMAIN fs_files => fs_files[f] # <<>>

\* C19 (as claimed): whatever attribute read fails (the temperature tool not
\* running or printing fewer than three lines, the firmware tool not
\* running, a missing vendor, model or serial file), the slot's Disk is
\* still emitted, with the attributes that could be read filled in.
C19_AttributeFailuresIndependent ==
    (rebuilds > 0 /\ AttrFilesNotEmpty) =>
        /\ jbod.status = "ok"
        /\ Len(jbod.disk) = 1
        /\ jbod.disk[1].serial = ReadOrNA(AttrDevice \o <<"/","v","p","d","_","p","g","8","0">>)
        /\ ToolRuns(SGINFO) =>
             jbod.disk[1].fw_revision = get_disk_firmware(env.sginfo_out)
        /\ (ToolRuns(SCSI_TEMP) /\ Len(Split(env.scsi_temp_out, "\n")) >= 3) =>
             jbod.disk[1].temperature
                = get_disk_temperature(env.scsi_temp_out).value

\* ------------------------------------------------------------------------
\* Claim about the temperature string (checked under SpecTemp)
\* ------------------------------------------------------------------------

\* the lines of the temperature tool's output
TempLines == Split(env.scsi_temp_out, "\n")

\* the tool ran and its output has a third line
HasThirdLine == ToolRuns(SCSI_TEMP) /\ Len(TempLines) >= 3

\* C20: for every string that is the third line of the temperature tool's
\* output, get_disk_temperature does not fail and returns the decimal digits
\* of that line in their order, every other character removed: the empty
\* string when the line has no digit.
C20_TemperatureIsDigitsOfThirdLine ==
    HasThirdLine =>
        /\ temp_pc # "panic"
        /\ temp_pc = "done" =>
             /\ temp_result = SelectSeq(TempLines[3], IsDigit)
             /\ (\A i \in 1..Len(TempLines[3]) : ~IsDigit(TempLines[3][i]))
                   => temp_result = <<>>

\* a third line mixing two different digits with other characters has been
\* reduced to its digits
C20_Witness ==
    /\ temp_pc = "done"
    /\ HasThirdLine
    /\ Len(temp_result) = 2
    /\ temp_result[1] # temp_result[2]
    /\ Len(TempLines[3]) = 3

\* the lines of the firmware tool's output that hold "Revision level"
RevisionLines ==
    { i \in DOMAIN Split(env.sginfo_out, "\n") :
        Contains(Split(env.sginfo_out, "\n")[i], <<"R","e","v","i","s","i","o","n"," ","l","e","v","e","l">>) }

\* the first of them
FirstRevisionLine ==
    Split(env.sginfo_out, "\n")
        [CHOOSE i \in RevisionLines : \A j \in RevisionLines : i <= j]

\* C21 (as claimed): when the attribute tools work, the slot's Disk is
\* emitted; its fw_revision is the sentinel "N/A" (never the empty string)
\* when the firmware tool's output has no "Revision level" line, and the
\* trimmed remainder of the first such line when it has one.
C21_FirmwareSentinelOrRemainder ==
    (rebuilds > 0 /\ AttrToolsFine /\ AttrFilesNotEmpty) =>
        /\ jbod.status = "ok"
        /\ Len(jbod.disk) = 1
        /\ IF RevisionLines = {}
           THEN jbod.disk[1].fw_revision = NotAvailable
           ELSE jbod.disk[1].fw_revision
                   = Trim(Remove(FirstRevisionLine, <<"R","e","v","i","s","i","o","n"," ","l","e","v","e","l",":">>))

\* ------------------------------------------------------------------------
\* Claims about one slot directory (checked under SpecTopo)
\* ------------------------------------------------------------------------

\* the name of the one entry of the enclosure's directory
TopoName == env.dirs[sys_class_enclosure \o TopoEnclosures[1].slot][1]

\* what its device/scsi_generic/ holds
TopoGeneric == env.dirs[TopoSlotDir(TopoName) \o <<"/","d","e","v","i","c","e","/","s","c","s","i","_","g","e","n","e","r","i","c">>]

\* the allow-list of the claim: the lower-cased name contains "slot", "disk"
\* or "array device", or is made of ASCII digits only
ClaimedCandidate(name) ==
    \/ \E w \in {<<"s","l","o","t">>, <<"d","i","s","k">>, <<"a","r","r","a","y"," ","d","e","v","i","c","e">>} :
          Contains(ToLowercase(name), w)
    \/ \A i \in 1..Len(name) : IsDigit(name[i])

\* C22: an entry of the enclosure's directory gives a Disk only if its name
\* is on the allow-list; an entry of another name gives none, although its
\* device/scsi_generic/ holds an entry.
C22_OnlyAllowedNamesGiveDisks ==
    /\ jbod.disk # <<>> => ClaimedCandidate(TopoName)
    /\ (rebuilds > 0 /\ ~ClaimedCandidate(TopoName)) =>
           /\ jbod.status = "ok"
           /\ jbod.disk = <<>>

\* a rebuild has passed an entry of a name off the list whose
\* scsi_generic/ is populated
C22_Witness ==
    /\ rebuilds > 0
    /\ ~ClaimedCandidate(TopoName)
    /\ TopoGeneric # <<>>
    /\ jbod.status = "ok"
    /\ jbod.disk = <<>>

\* the scenario: one enclosure line of slot 15:0:1:0, the slot Slot00 whose
\* scsi_generic entry is sg105, a table line "/dev/sg105 /dev/sdcz" and a
\* temperature output whose third line holds "37 C"
Scenario ==
    /\ Len(env.lsscsi_out) = 1
    /\ Len(enclosures) = 1
    /\ enclosures[1].slot = <<"1","5",":","0",":","1",":","0">>
    /\ TopoName = <<"S","l","o","t","0","0">>
    /\ TopoGeneric = << <<"s","g","1","0","5">> >>
    /\ \E k \in 1..Len(env.sg_map_out) :
          SplitWhitespace(env.sg_map_out[k]) = << <<"/","d","e","v","/","s","g","1","0","5">>, <<"/","d","e","v","/","s","d","c","z">> >>
    /\ Contains(Split(env.scsi_temp_out, "\n")[3], <<"3","7"," ","C">>)

\* the enclosures whose directory holds the slot directory of the Disk `d`
HomeEnclosures(d) ==
    { k \in 1..Len(enclosures) :
        \E j \in 1..Len(env.dirs[sys_class_enclosure \o enclosures[k].slot]) :
           JoinPath(sys_class_enclosure \o enclosures[k].slot,
                    env.dirs[sys_class_enclosure \o enclosures[k].slot][j])
              = SlotDirOf(d) }

\* C23: in the scenario the rebuild returns exactly one Disk, of device_path
\* "/dev/sg105", device_map "/dev/sdcz", temperature "37" and enclosure
\* "15:0:1:0"; and every emitted Disk's enclosure is the slot of the
\* Enclosure under whose directory it was found.
C23_ScenarioGivesOneDisk ==
    /\ (rebuilds > 0 /\ Scenario) =>
          /\ jbod.status = "ok"
          /\ Len(jbod.disk) = 1
          /\ jbod.disk[1].device_path = <<"/","d","e","v","/","s","g","1","0","5">>
          /\ jbod.disk[1].device_map = <<"/","d","e","v","/","s","d","c","z">>
          /\ jbod.disk[1].temperature = <<"3","7">>
          /\ jbod.disk[1].enclosure = <<"1","5",":","0",":","1",":","0">>
    /\ \A k \in 1..Len(jbod.disk) :
          /\ HomeEnclosures(jbod.disk[k]) # {}
          /\ \A h \in HomeEnclosures(jbod.disk[k]) :
                jbod.disk[k].enclosure = enclosures[h].slot

\* the scenario has been rebuilt and has given its Disk
C23_Witness ==
    /\ rebuilds > 0
    /\ Scenario
    /\ jbod.status = "ok"
    /\ Len(jbod.disk) = 1
    /\ jbod.disk[1].temperature = <<"3","7">>

\* the entry of device/scsi_generic/ iterated last
LastGeneric == TopoGeneric[Len(TopoGeneric)]

\* C25: the one slot directory gives at most one Disk in a rebuild, also
\* when its device/scsi_generic/ holds several entries; the Disk emitted is
\* the one of the last entry iterated: its device_path is that entry's and
\* its device_map what the table holds for it.
C25_LastGenericEntryWins ==
    /\ Len(jbod.disk) <= 1
    /\ Len(jbod.disk) = 1 =>
          /\ TopoGeneric # <<>>
          /\ jbod.disk[1].device_path = <<"/","d","e","v","/">> \o LastGeneric
          /\ jbod.disk[1].device_map
                = get_disk_sd_map(env.sg_map_out).disks[<<"/","d","e","v","/">> \o LastGeneric]
          /\ jbod.disk[1].slot = TopoName

\* a slot directory with two generic entries has given one Disk, that of
\* the second
C25_Witness ==
    /\ rebuilds > 0
    /\ Len(TopoGeneric) = 2
    /\ TopoGeneric[1] # TopoGeneric[2]
    /\ Len(jbod.disk) = 1
    /\ jbod.disk[1].device_path = <<"/","d","e","v","/">> \o TopoGeneric[2]

\* ------------------------------------------------------------------------
\* Claim about the order of the two indicators (checked under SpecJbod)
\* ------------------------------------------------------------------------

\* the command names a locate device and a fault device
BothIndicators ==
    cmd.sub = "led" /\ cmd.locate.present /\ cmd.fault.present

\* exactly one of --on and --off is given
OneSwitch == cmd.on # cmd.off

\* the writes issued so far that went to a fault control file
FaultWrites ==
    { k \in 1..Len(fs_writes) : EndsWith(fs_writes[k].path, <<"/","f","a","u","l","t">>) }

\* the writes issued so far that went to a locate control file
LocateWrites ==
    { k \in 1..Len(fs_writes) : EndsWith(fs_writes[k].path, <<"/","l","o","c","a","t","e">>) }

\* C26: in a command naming both devices with --on or --off, the locate
\* indicator is handled whole, with its own rebuild, before the fault
\* indicator starts, which gets a second rebuild; when the locate handling
\* ends in exit or panic the fault file is never written; with neither --on
\* nor --off there is no rebuild and no write.
C26_LocateThenFault ==
    /\ (cmd.sub = "led" /\ ~cmd.on /\ ~cmd.off) =>
          /\ rebuilds = 0
          /\ fs_writes = <<>>
    /\ (BothIndicators /\ OneSwitch) =>
          /\ pc = "start" => (rebuilds = 0 /\ fs_writes = <<>>)
          /\ pc = "fault" =>
                /\ rebuilds = 1
                /\ led_op.kind = "locate"
                /\ FaultWrites = {}
          /\ pc = "done" =>
                /\ rebuilds = 2
                /\ led_op.kind = "fault"
          /\ (pc \in {"exit1", "panic"} /\ led_op.kind = "locate") =>
                /\ FaultWrites = {}
                /\ rebuilds <= 1
          /\ \A i \in LocateWrites : \A j \in FaultWrites : i < j

\* a command naming both devices with --on has written the locate file and
\* then, after a second rebuild, the fault file
C26_Witness ==
    /\ BothIndicators
    /\ cmd.on /\ ~cmd.off
    /\ pc = "done"
    /\ rebuilds = 2
    /\ Len(fs_writes) = 2
    /\ LocateWrites = {1}
    /\ FaultWrites = {2}

\* ------------------------------------------------------------------------
\* Claim about concurrent operations (checked under SpecConc)
\* ------------------------------------------------------------------------

Readings(l) ==
    { ParseI64(disks_temperature.disk[k].temperature).val :
        k \in { j \in 1..Len(disks_temperature.disk) :
                  /\ <<disks_temperature.disk[j].slot,
                       disks_temperature.disk[j].enclosure>> = l
                  /\ ParseI64(disks_temperature.disk[j].temperature).ok } }

\* the series a reply exports although the rebuild behind it gave no
\* reading for them
StaleSeries ==
    { l \in DOMAIN response.temperature : Readings(l) = {} }

\* C27: across the scrapes metrics_handler serves, a jbod_slot_temperature
\* series once set for a (slot, enclosure) pair stays in the gauge with its
\* value until a scrape whose rebuild reads a temperature for that pair
\* sets it again; every reply exports it with that value, also when the
\* disk is gone from the topology or its temperature is empty or no number.
C27_SeriesKeepsLastValue ==
    [][\A l \in DOMAIN slot_temperature :
          /\ l \in DOMAIN slot_temperature'
          /\ slot_temperature'[l] # slot_temperature[l]
                => /\ scrapes' = scrapes + 1
                   /\ slot_temperature'[l] \in Readings(l)'
          /\ (scrapes' # scrapes /\ response'.sent)
                => /\ l \in DOMAIN response'.temperature
                   /\ response'.temperature[l] = slot_temperature'[l]
                   /\ Readings(l)' = {}
                         => response'.temperature[l] = slot_temperature[l]]_vars

\* a reply of the third scrape exports one series whose disk is gone from
\* the topology and one whose disk is there with a temperature that does
\* not parse
C27_Witness ==
    /\ response.sent
    /\ disks_temperature.status = "ok"
    /\ \E l \in StaleSeries :
         \A k \in 1..Len(disks_temperature.disk) :
             <<disks_temperature.disk[k].slot,
               disks_temperature.disk[k].enclosure>> # l
    /\ \E l \in StaleSeries :
         \E k \in 1..Len(disks_temperature.disk) :
             /\ <<disks_temperature.disk[k].slot,
                  disks_temperature.disk[k].enclosure>> = l
             /\ ~ParseI64(disks_temperature.disk[k].temperature).ok
====
